---- MODULE Spec2Model ----
(***************************************************************************)
(* A model of the Hermes Metadata Manager (src/src/metadata_management.cc) *)
(* and of the Bucket / VBucket API handles built on it                     *)
(* (src/src/api/bucket.cc, src/src/api/vbucket.h).                         *)
(*                                                                         *)
(* Strings are sequences of character codes (ASCII).  An id is the record  *)
(* view of the 64-bit union: node_id is the high half, index (or           *)
(* buffer_ids_offset) the low half; the null id has both halves zero.      *)
(* A remote procedure call is the Local variant run on the target node.    *)
(***************************************************************************)
EXTENDS Integers, Sequences, FiniteSets, TLC

(***************************************************************************)
(* Bounds of the model.                                                    *)
(***************************************************************************)
NumNodes == 2
MaxBuckets == 2
MaxVBuckets == 2
MaxHandles == 2
MaxIdLists == 1
MaxBlobsPerBucket == 2
MaxVHandles == 1
NumClients == 2
HalfWordBits == 8
NumProcs == 3
\* Scaled name maxima (the program's values are larger; only the boundary
\* size + 1 >= max matters).
kMaxBucketNameSize == 3
kMaxVBucketNameSize == 4
kMaxBlobNameSize == 3

Nodes == 1..NumNodes

(***************************************************************************)
(* Names.                                                                  *)
(***************************************************************************)
Rep(c, n) == [i \in 1..n |-> c]

\* "a", "b", "c", "e"
ShortNames == {<<97>>, <<98>>, <<99>>, <<101>>}

\* The names the clients use: short ones, and for every kind of name the
\* lengths around its limit.
BucketNames ==
  {<<97>>, <<98>>} \cup {Rep(97, kMaxBucketNameSize - 2), Rep(97, kMaxBucketNameSize - 1),
                         Rep(97, kMaxBucketNameSize)}

VBucketNames ==
  {Rep(97, kMaxVBucketNameSize - 2), Rep(97, kMaxVBucketNameSize - 1),
   Rep(97, kMaxVBucketNameSize)}

BlobNames ==
  {<<120>>, <<121>>} \cup {Rep(120, kMaxBlobNameSize - 1), Rep(120, kMaxBlobNameSize)}

IsNameTooLong(name, max) == Len(name) + 1 >= max

IsBlobNameTooLong(name) == IsNameTooLong(name, kMaxBlobNameSize)

IsBucketNameTooLong(name) == IsNameTooLong(name, kMaxBucketNameSize)

IsVBucketNameTooLong(name) == IsNameTooLong(name, kMaxVBucketNameSize)

(***************************************************************************)
(* Identifiers.                                                            *)
(***************************************************************************)
NullId == [node_id |-> 0, index |-> 0]

MakeId(node, idx) == [node_id |-> node, index |-> idx]

IsNullId(id) == id.node_id = 0 /\ id.index = 0

IsNullBucketId(id) == IsNullId(id)

IsNullVBucketId(id) == IsNullId(id)

IsNullBlobId(id) == IsNullId(id)

Abs(x) == IF x < 0 THEN 0 - x ELSE x

GetBlobNodeId(id) == Abs(id.node_id)

BlobIsInSwap(id) == id.node_id < 0

(***************************************************************************)
(* Storage maps: one string -> id map per node and map type.  A map is a   *)
(* function whose domain is the set of keys present; a missing key reads   *)
(* as the null id.                                                         *)
(***************************************************************************)
kMapType_Bucket == "Bucket"
kMapType_VBucket == "VBucket"
kMapType_Blob == "Blob"
MapTypes == {kMapType_Bucket, kMapType_VBucket, kMapType_Blob}

EmptyMap == [k \in {} |-> NullId]

PutToStorage(map, key, val) ==
  [k \in DOMAIN map \cup {key} |-> IF k = key THEN val ELSE map[k]]

GetFromStorage(map, key) == IF key \in DOMAIN map THEN map[key] ELSE NullId

DeleteFromStorage(map, key) == [k \in DOMAIN map \ {key} |-> map[k]]

RECURSIVE SumChars(_)
SumChars(s) == IF s = <<>> THEN 0 ELSE Head(s) + SumChars(Tail(s))

\* The shard of a key: a deterministic hash of the string onto nodes 1..NumNodes.
HashStringForStorage(str) == (SumChars(str) % NumNodes) + 1

HashString(str) == HashStringForStorage(str)


(***************************************************************************)
(* The MetadataManager of one node, as InitMetadataManager leaves it.      *)
(* The shared-memory arena is zero filled, so a slot never used has        *)
(* ref_count 0 and an empty blob list.                                     *)
(***************************************************************************)
InitInfoArray(node_id, max) ==
  [i \in 0..(max - 1) |->
     [active |-> FALSE,
      ref_count |-> 0,
      blobs |-> <<>>,
      next_free |-> IF i = max - 1 THEN NullId ELSE MakeId(node_id, i + 1)]]

InitMetadataManager(node_id) ==
  [maps |-> [t \in MapTypes |-> EmptyMap],
   bucket_info |-> InitInfoArray(node_id, MaxBuckets),
   first_free_bucket |-> MakeId(node_id, 0),
   num_buckets |-> 0,
   max_buckets |-> MaxBuckets,
   vbucket_info |-> InitInfoArray(node_id, MaxVBuckets),
   first_free_vbucket |-> MakeId(node_id, 0),
   num_vbuckets |-> 0,
   max_vbuckets |-> MaxVBuckets,
   id_lists |-> [o \in 1..MaxIdLists |-> [allocated |-> FALSE, ids |-> <<>>]]]

(***************************************************************************)
(* Map access.  m is the state of all nodes, [Nodes -> MetadataManager];   *)
(* rpc_node is the node the caller runs on (rpc->node_id).                 *)
(***************************************************************************)
LocalPut(m, node, key, val, map_type) ==
  [m EXCEPT ![node].maps[map_type] = PutToStorage(@, key, val)]

LocalGet(m, node, key, map_type) == GetFromStorage(m[node].maps[map_type], key)

LocalDelete(m, node, key, map_type) ==
  [m EXCEPT ![node].maps[map_type] = DeleteFromStorage(@, key)]

\* GetId that reads the map of the calling node, whoever owns the name.
GetId_OnCaller(m, rpc_node, name, map_type) == LocalGet(m, rpc_node, name, map_type)

GetId(m, rpc_node, name, map_type) ==
  LET target_node == HashString(name)
  IN  IF target_node = rpc_node
      THEN LocalGet(m, rpc_node, name, map_type)
      ELSE LocalGet(m, target_node, name, map_type)   \* RemoteGet

GetBucketId(m, rpc_node, name) == GetId(m, rpc_node, name, kMapType_Bucket)

LocalGetBucketId(m, node, name) == LocalGet(m, node, name, kMapType_Bucket)

GetVBucketId(m, rpc_node, name) == GetId(m, rpc_node, name, kMapType_VBucket)

LocalGetVBucketId(m, node, name) == LocalGet(m, node, name, kMapType_VBucket)

\* PutId that stores on the calling node, whoever owns the name.
PutId_OnCaller(m, rpc_node, name, id, map_type) == LocalPut(m, rpc_node, name, id, map_type)

PutId(m, rpc_node, name, id, map_type) ==
  LET target_node == HashString(name)
  IN  IF target_node = rpc_node
      THEN LocalPut(m, rpc_node, name, id, map_type)
      ELSE LocalPut(m, target_node, name, id, map_type)   \* RemotePut

PutBucketId(m, rpc_node, name, id) == PutId(m, rpc_node, name, id, kMapType_Bucket)

LocalPutBucketId(m, node, name, id) == LocalPut(m, node, name, id, kMapType_Bucket)

PutVBucketId(m, rpc_node, name, id) == PutId(m, rpc_node, name, id, kMapType_VBucket)

LocalPutVBucketId(m, node, name, id) == LocalPut(m, node, name, id, kMapType_VBucket)

DeleteId(m, rpc_node, name, map_type) ==
  LET target_node == HashString(name)
  IN  IF target_node = rpc_node
      THEN LocalDelete(m, rpc_node, name, map_type)
      ELSE LocalDelete(m, target_node, name, map_type)   \* RemoteDelete

DeleteBucketId(m, rpc_node, name) == DeleteId(m, rpc_node, name, kMapType_Bucket)

DeleteVBucketId(m, rpc_node, name) == DeleteId(m, rpc_node, name, kMapType_VBucket)

(***************************************************************************)
(* Internal blob names: the 16 hex digits of the bucket id, most           *)
(* significant byte first, followed by the external name.                  *)
(***************************************************************************)
kBucketIdStringSize == 2 * 8

HexChar(d) == IF d < 10 THEN 48 + d ELSE 87 + d

HexU32(v) == [i \in 1..8 |-> HexChar((v \div (16 ^ (8 - i))) % 16)]

\* hextable: the value of a character as a hexadecimal digit; a character
\* that is no hexadecimal digit has the value 0.
hextable(c) ==
  IF c >= 48 /\ c <= 57 THEN c - 48
  ELSE IF c >= 65 /\ c <= 70 THEN c - 55
  ELSE IF c >= 97 /\ c <= 102 THEN c - 87
  ELSE 0

\* result = (result << 4) | hextable[s[i]] over the characters first..last of s.
RECURSIVE HexDigitsToInt(_, _, _)
HexDigitsToInt(s, first, last) ==
  IF last < first THEN 0
  ELSE HexDigitsToInt(s, first, last - 1) * 16 + hextable(s[last])

\* The first kBucketIdStringSize characters of s read as one 64-bit number,
\* given as the id whose as_int it is: the high eight digits are node_id, the
\* low eight the index.
HexStringToU64(s) ==
  MakeId(HexDigitsToInt(s, 1, kBucketIdStringSize \div 2),
         HexDigitsToInt(s, kBucketIdStringSize \div 2 + 1, kBucketIdStringSize))

\* MakeInternalBlobName that prints the low half of the id first.
MakeInternalBlobName_IndexFirst(name, id) == HexU32(id.index) \o HexU32(id.node_id) \o name

MakeInternalBlobName(name, id) == HexU32(id.node_id) \o HexU32(id.index) \o name

GetBlobId(m, rpc_node, name, bucket_id) ==
  GetId(m, rpc_node, MakeInternalBlobName(name, bucket_id), kMapType_Blob)

PutBlobId(m, rpc_node, name, id, bucket_id) ==
  PutId(m, rpc_node, MakeInternalBlobName(name, bucket_id), id, kMapType_Blob)

DeleteBlobId(m, rpc_node, name, bucket_id) ==
  DeleteId(m, rpc_node, MakeInternalBlobName(name, bucket_id), kMapType_Blob)

\* Not in the sources at hand: the reverse association of the Blob map, the
\* key stored with the value, or the empty string.
ReverseGetFromStorage(map, val) ==
  IF \E k \in DOMAIN map : map[k] = val
  THEN CHOOSE k \in DOMAIN map : map[k] = val
  ELSE <<>>

LocalGetBlobNameFromId(m, node, blob_id) ==
  LET blob_name == ReverseGetFromStorage(m[node].maps[kMapType_Blob], blob_id)
  IN  IF Len(blob_name) > kBucketIdStringSize
      THEN SubSeq(blob_name, kBucketIdStringSize + 1, Len(blob_name))
      ELSE <<>>

GetBlobNameFromId(m, rpc_node, blob_id) ==
  LET target_node == GetBlobNodeId(blob_id)
  IN  IF target_node = rpc_node
      THEN LocalGetBlobNameFromId(m, rpc_node, blob_id)
      ELSE LocalGetBlobNameFromId(m, target_node, blob_id)   \* RemoteGetBlobNameFromId

LocalGetBucketIdFromBlobId(m, node, id) ==
  LET internal_name == ReverseGetFromStorage(m[node].maps[kMapType_Blob], id)
  IN  IF Len(internal_name) > kBucketIdStringSize
      THEN HexStringToU64(internal_name)
      ELSE NullId

GetBucketIdFromBlobId(m, rpc_node, id) ==
  LET target_node == GetBlobNodeId(id)
  IN  IF target_node = rpc_node
      THEN LocalGetBucketIdFromBlobId(m, rpc_node, id)
      ELSE LocalGetBucketIdFromBlobId(m, target_node, id)   \* RemoteGetBucketIdFromBlobId

(***************************************************************************)
(* Bucket slots and ref-counts.  An operator that returns a value and      *)
(* changes state yields [mdm |-> new state, result |-> value].             *)
(***************************************************************************)
LocalGetBucketInfoByIndex(m, node, index) == m[node].bucket_info[index]

LocalGetBucketInfoById(m, node, id) == LocalGetBucketInfoByIndex(m, node, id.index)

\* The BucketInfo of a bucket, on the node its id names.
SlotOfBucket(m, id) == LocalGetBucketInfoById(m, id.node_id, id)

\* LocalGetNextFreeBucketId without its last statement: the slot is taken but
\* the name is not entered in the Bucket map.
LocalGetNextFreeBucketId_NoPut(m, node, name) ==
  LET mm == m[node]
      result == IF mm.num_buckets < mm.max_buckets THEN mm.first_free_bucket ELSE NullId
      info == LocalGetBucketInfoByIndex(m, node, result.index)
  IN  [mdm |-> IF ~IsNullBucketId(result)
               THEN [m EXCEPT ![node].bucket_info[result.index].blobs = <<>>,
                              ![node].bucket_info[result.index].ref_count = 1,
                              ![node].bucket_info[result.index].active = TRUE,
                              ![node].first_free_bucket = info.next_free,
                              ![node].num_buckets = @ + 1]
               ELSE m,
       result |-> result]

\* LocalGetNextFreeBucketId with the capacity test off by one: the last slot
\* of the pool is never handed out.
LocalGetNextFreeBucketId_OneLess(m, node, name) ==
  LET mm == m[node]
      result == IF mm.num_buckets < mm.max_buckets - 1 THEN mm.first_free_bucket ELSE NullId
      info == LocalGetBucketInfoByIndex(m, node, result.index)
  IN  [mdm |-> IF ~IsNullBucketId(result)
               THEN LocalPutBucketId(
                      [m EXCEPT ![node].bucket_info[result.index].blobs = <<>>,
                                ![node].bucket_info[result.index].ref_count = 1,
                                ![node].bucket_info[result.index].active = TRUE,
                                ![node].first_free_bucket = info.next_free,
                                ![node].num_buckets = @ + 1],
                      node, name, result)
               ELSE m,
       result |-> result]

LocalGetNextFreeBucketId(m, node, name) ==
  LET mm == m[node]
      result == IF mm.num_buckets < mm.max_buckets THEN mm.first_free_bucket ELSE NullId
      info == LocalGetBucketInfoByIndex(m, node, result.index)
      taken == IF ~IsNullBucketId(result)
               THEN [m EXCEPT ![node].bucket_info[result.index].blobs = <<>>,
                              ![node].bucket_info[result.index].ref_count = 1,
                              ![node].bucket_info[result.index].active = TRUE,
                              ![node].first_free_bucket = info.next_free,
                              ![node].num_buckets = @ + 1]
               ELSE m
  IN  [mdm |-> IF ~IsNullBucketId(result)
               THEN LocalPutBucketId(taken, node, name, result)
               ELSE taken,
       result |-> result]

\* LocalIncrementRefcount that loses the increment.
LocalIncrementRefcount_Lost(m, node, id) == m

LocalIncrementRefcount(m, node, id) ==
  [m EXCEPT ![node].bucket_info[id.index].ref_count = @ + 1]

\* The two branches of LocalGetOrCreateBucketId, taken on the id the lookup
\* under bucket_mutex returned.
OpenOrCreateBucket(m, node, name, result) ==
  IF ~IsNullId(result)
  THEN [mdm |-> LocalIncrementRefcount(m, node, result), result |-> result]
  ELSE LocalGetNextFreeBucketId(m, node, name)

LocalGetOrCreateBucketId(m, node, name) ==
  OpenOrCreateBucket(m, node, name, LocalGetBucketId(m, node, name))

GetOrCreateBucketId(m, rpc_node, name) ==
  LET target_node == HashString(name)
  IN  IF target_node = rpc_node
      THEN LocalGetOrCreateBucketId(m, rpc_node, name)
      ELSE LocalGetOrCreateBucketId(m, target_node, name)   \* RemoteGetOrCreateBucketId

LocalDecrementRefcount(m, node, id) ==
  [m EXCEPT ![node].bucket_info[id.index].ref_count = @ - 1]

DecrementRefcount(m, rpc_node, id) ==
  LET target_node == id.node_id
  IN  IF target_node = rpc_node
      THEN LocalDecrementRefcount(m, rpc_node, id)
      ELSE LocalDecrementRefcount(m, target_node, id)   \* RemoteDecrementRefcount

LocalRenameBucket(m, node, id, old_name, new_name) ==
  PutBucketId(DeleteBucketId(m, node, old_name), node, new_name, id)

RenameBucket(m, rpc_node, id, old_name, new_name) ==
  LET target_node == id.node_id
  IN  IF target_node = rpc_node
      THEN LocalRenameBucket(m, rpc_node, id, old_name, new_name)
      ELSE LocalRenameBucket(m, target_node, id, old_name, new_name)   \* RemoteRenameBucket

\* Not in the sources at hand; after the directory contract: a bucket whose
\* ref-count is greater than zero is refused, otherwise its slot goes back to
\* the head of the free slot list and the mapping of the name is deleted (on
\* the node that owns the name).
LocalDestroyBucket(m, node, name, bucket_id) ==
  LET info == LocalGetBucketInfoById(m, node, bucket_id)
  IN  IF info.ref_count > 0
      THEN [mdm |-> m, result |-> FALSE]
      ELSE [mdm |-> DeleteBucketId(
                      [m EXCEPT ![node].bucket_info[bucket_id.index].blobs = <<>>,
                                ![node].bucket_info[bucket_id.index].ref_count = 0,
                                ![node].bucket_info[bucket_id.index].active = FALSE,
                                ![node].bucket_info[bucket_id.index].next_free =
                                    m[node].first_free_bucket,
                                ![node].first_free_bucket = bucket_id,
                                ![node].num_buckets = @ - 1],
                      node, name),
            result |-> TRUE]

DestroyBucket(m, rpc_node, name, bucket_id) ==
  LET target_node == bucket_id.node_id
  IN  IF target_node = rpc_node
      THEN LocalDestroyBucket(m, rpc_node, name, bucket_id)
      ELSE LocalDestroyBucket(m, target_node, name, bucket_id)   \* RemoteDestroyBucket


(***************************************************************************)
(* VBucket slots and ref-counts.                                           *)
(***************************************************************************)
GetVBucketInfoByIndex(m, node, index) == m[node].vbucket_info[index]

LocalGetNextFreeVBucketId(m, node, name) ==
  LET mm == m[node]
      result == IF mm.num_vbuckets < mm.max_vbuckets THEN mm.first_free_vbucket ELSE NullId
      info == GetVBucketInfoByIndex(m, node, result.index)
      taken == IF ~IsNullVBucketId(result)
               THEN [m EXCEPT ![node].vbucket_info[result.index].blobs = <<>>,
                              ![node].vbucket_info[result.index].ref_count = 1,
                              ![node].vbucket_info[result.index].active = TRUE,
                              ![node].first_free_vbucket = info.next_free,
                              ![node].num_vbuckets = @ + 1]
               ELSE m
  IN  [mdm |-> IF ~IsNullVBucketId(result)
               THEN LocalPutVBucketId(taken, node, name, result)
               ELSE taken,
       result |-> result]

LocalIncrementRefcountVBucket(m, node, id) ==
  [m EXCEPT ![node].vbucket_info[id.index].ref_count = @ + 1]

OpenOrCreateVBucket(m, node, name, result) ==
  IF ~IsNullId(result)
  THEN [mdm |-> LocalIncrementRefcountVBucket(m, node, result), result |-> result]
  ELSE LocalGetNextFreeVBucketId(m, node, name)

LocalGetOrCreateVBucketId(m, node, name) ==
  OpenOrCreateVBucket(m, node, name, LocalGetVBucketId(m, node, name))

GetOrCreateVBucketId(m, rpc_node, name) ==
  LET target_node == HashString(name)
  IN  IF target_node = rpc_node
      THEN LocalGetOrCreateVBucketId(m, rpc_node, name)
      ELSE LocalGetOrCreateVBucketId(m, target_node, name)   \* RemoteGetOrCreateVBucketId

(***************************************************************************)
(* Blobs.  A BlobID's low half is the offset of its buffer-id list in the  *)
(* list pool of node |node_id|.                                            *)
(***************************************************************************)
FreeIdListOffsets(m, node) == {o \in 1..MaxIdLists : ~m[node].id_lists[o].allocated}

Min(S) == CHOOSE x \in S : \A y \in S : x <= y

\* Not in the sources at hand: stores the list in the node's pool and returns
\* its offset.
LocalAllocateBufferIdList(m, node, buffer_ids) ==
  LET o == Min(FreeIdListOffsets(m, node))
  IN  [mdm |-> [m EXCEPT ![node].id_lists[o] = [allocated |-> TRUE, ids |-> buffer_ids]],
       result |-> o]

AllocateBufferIdList(m, rpc_node, target_node, buffer_ids) ==
  IF target_node = rpc_node
  THEN LocalAllocateBufferIdList(m, rpc_node, buffer_ids)
  ELSE LocalAllocateBufferIdList(m, target_node, buffer_ids)   \* RemoteAllocateBufferIdList

\* Not in the sources at hand: the list stored at the id's offset in the
\* node's pool (empty when nothing is stored there).
LocalGetBufferIdList(m, node, blob_id) ==
  IF blob_id.index \in DOMAIN m[node].id_lists
  THEN m[node].id_lists[blob_id.index].ids
  ELSE <<>>

GetBufferIdList(m, rpc_node, blob_id) ==
  LET target_node == GetBlobNodeId(blob_id)
  IN  IF target_node = rpc_node
      THEN LocalGetBufferIdList(m, rpc_node, blob_id)
      ELSE LocalGetBufferIdList(m, target_node, blob_id)   \* RemoteGetBufferIdList

\* Not in the sources at hand: appends the id to the bucket's blob list.
LocalAddBlobIdToBucket(m, node, bucket_id, blob_id) ==
  [m EXCEPT ![node].bucket_info[bucket_id.index].blobs = Append(@, blob_id)]

AddBlobIdToBucket(m, rpc_node, blob_id, bucket_id) ==
  LET target_node == bucket_id.node_id
  IN  IF target_node = rpc_node
      THEN LocalAddBlobIdToBucket(m, rpc_node, bucket_id, blob_id)
      ELSE LocalAddBlobIdToBucket(m, target_node, bucket_id, blob_id)   \* RemoteAddBlobIdToBucket

\* AttachBlobToBucket that ignores is_swap_blob.
AttachBlobToBucket_NeverSwap(m, rpc_node, blob_name, bucket_id, buffer_ids, is_swap_blob) ==
  LET target_node == HashString(blob_name)
      alloc == AllocateBufferIdList(m, rpc_node, target_node, buffer_ids)
      blob_id == MakeId(target_node, alloc.result)
  IN  AddBlobIdToBucket(PutBlobId(alloc.mdm, rpc_node, blob_name, blob_id, bucket_id),
                        rpc_node, blob_id, bucket_id)

\* AttachBlobToBucket that names the calling node in the blob id; the list
\* is allocated on the node that owns the name.
AttachBlobToBucket_CallerInId(m, rpc_node, blob_name, bucket_id, buffer_ids, is_swap_blob) ==
  LET target_node == HashString(blob_name)
      alloc == AllocateBufferIdList(m, rpc_node, target_node, buffer_ids)
      blob_id == MakeId(IF is_swap_blob THEN 0 - rpc_node ELSE rpc_node, alloc.result)
  IN  AddBlobIdToBucket(PutBlobId(alloc.mdm, rpc_node, blob_name, blob_id, bucket_id),
                        rpc_node, blob_id, bucket_id)

AttachBlobToBucket(m, rpc_node, blob_name, bucket_id, buffer_ids, is_swap_blob) ==
  LET target_node == HashString(blob_name)
      alloc == AllocateBufferIdList(m, rpc_node, target_node, buffer_ids)
      blob_id == MakeId(IF is_swap_blob THEN 0 - target_node ELSE target_node, alloc.result)
  IN  AddBlobIdToBucket(PutBlobId(alloc.mdm, rpc_node, blob_name, blob_id, bucket_id),
                        rpc_node, blob_id, bucket_id)

\* Not in the sources at hand: gives the list back to the node's pool.
LocalFreeBufferIdList(m, node, blob_id) ==
  [m EXCEPT ![node].id_lists[blob_id.index] = [allocated |-> FALSE, ids |-> <<>>]]

FreeBufferIdList(m, rpc_node, blob_id) ==
  LET target_node == GetBlobNodeId(blob_id)
  IN  IF target_node = rpc_node
      THEN LocalFreeBufferIdList(m, rpc_node, blob_id)
      ELSE LocalFreeBufferIdList(m, target_node, blob_id)   \* RemoteFreeBufferIdList

\* ReleaseBuffers acts on the buffer pool, which is no part of the directory
\* state.
LocalDestroyBlobByName(m, node, blob_name, blob_id, bucket_id) ==
  DeleteBlobId(FreeBufferIdList(m, node, blob_id), node, blob_name, bucket_id)

RECURSIVE RemoveId(_, _)
RemoveId(ids, id) ==
  IF ids = <<>> THEN <<>>
  ELSE IF Head(ids) = id THEN Tail(ids)
  ELSE <<Head(ids)>> \o RemoveId(Tail(ids), id)

\* Not in the sources at hand: takes the id out of the bucket's blob list.
LocalRemoveBlobFromBucketInfo(m, node, bucket_id, blob_id) ==
  [m EXCEPT ![node].bucket_info[bucket_id.index].blobs = RemoveId(@, blob_id)]

RemoveBlobFromBucketInfo(m, rpc_node, bucket_id, blob_id) ==
  LET target_node == bucket_id.node_id
  IN  IF target_node = rpc_node
      THEN LocalRemoveBlobFromBucketInfo(m, rpc_node, bucket_id, blob_id)
      ELSE LocalRemoveBlobFromBucketInfo(m, target_node, bucket_id, blob_id)

\* DestroyBlobByName that leaves the id in the bucket's blob list.
DestroyBlobByName_KeepsInBucket(m, rpc_node, bucket_id, blob_name) ==
  LET blob_id == GetBlobId(m, rpc_node, blob_name, bucket_id)
  IN  IF ~IsNullBlobId(blob_id)
      THEN LocalDestroyBlobByName(m, GetBlobNodeId(blob_id), blob_name, blob_id, bucket_id)
      ELSE m

DestroyBlobByName(m, rpc_node, bucket_id, blob_name) ==
  LET blob_id == GetBlobId(m, rpc_node, blob_name, bucket_id)
      blob_id_target_node == GetBlobNodeId(blob_id)
      destroyed == IF blob_id_target_node = rpc_node
                   THEN LocalDestroyBlobByName(m, rpc_node, blob_name, blob_id, bucket_id)
                   ELSE LocalDestroyBlobByName(m, blob_id_target_node, blob_name, blob_id,
                                               bucket_id)   \* RemoteDestroyBlobByName
  IN  IF ~IsNullBlobId(blob_id)
      THEN RemoveBlobFromBucketInfo(destroyed, rpc_node, bucket_id, blob_id)
      ELSE m

\* RenameBlob that enters the new name and leaves the old one in the map.
RenameBlob_KeepsOld(m, rpc_node, old_name, new_name, bucket_id) ==
  LET blob_id == GetBlobId(m, rpc_node, old_name, bucket_id)
  IN  IF ~IsNullBlobId(blob_id)
      THEN PutBlobId(m, rpc_node, new_name, blob_id, bucket_id)
      ELSE m

RenameBlob(m, rpc_node, old_name, new_name, bucket_id) ==
  LET blob_id == GetBlobId(m, rpc_node, old_name, bucket_id)
  IN  IF ~IsNullBlobId(blob_id)
      THEN PutBlobId(DeleteBlobId(m, rpc_node, old_name, bucket_id),
                     rpc_node, new_name, blob_id, bucket_id)
      ELSE m

\* The buffers LocalDestroyBlobByName and LocalDestroyBlobById hand to
\* ReleaseBuffers (of which the sources at hand hold the declaration only).
BuffersToRelease(m, node, blob_id) ==
  IF ~BlobIsInSwap(blob_id) THEN GetBufferIdList(m, node, blob_id) ELSE <<>>

LocalDestroyBlobById(m, node, blob_id, bucket_id) ==
  LET freed == FreeBufferIdList(m, node, blob_id)
      blob_name == LocalGetBlobNameFromId(freed, node, blob_id)
  IN  IF Len(blob_name) > 0
      THEN DeleteBlobId(freed, node, blob_name, bucket_id)
      ELSE freed

DestroyBlobById(m, rpc_node, id, bucket_id) ==
  LET target_node == GetBlobNodeId(id)
  IN  IF target_node = rpc_node
      THEN LocalDestroyBlobById(m, rpc_node, id, bucket_id)
      ELSE LocalDestroyBlobById(m, target_node, id, bucket_id)   \* RemoteDestroyBlobById

\* Not in the sources at hand: whether the id is in the bucket's blob list.
LocalContainsBlob(m, node, bucket_id, blob_id) ==
  \E i \in DOMAIN m[node].bucket_info[bucket_id.index].blobs :
    m[node].bucket_info[bucket_id.index].blobs[i] = blob_id

\* ContainsBlob that trusts the Blob map and does not ask the bucket's node.
ContainsBlob_MapOnly(m, rpc_node, bucket_id, blob_name) ==
  ~IsNullBlobId(GetBlobId(m, rpc_node, blob_name, bucket_id))

ContainsBlob(m, rpc_node, bucket_id, blob_name) ==
  LET blob_id == GetBlobId(m, rpc_node, blob_name, bucket_id)
      target_node == bucket_id.node_id
  IN  IF ~IsNullBlobId(blob_id)
      THEN IF target_node = rpc_node
           THEN LocalContainsBlob(m, rpc_node, bucket_id, blob_id)
           ELSE LocalContainsBlob(m, target_node, bucket_id, blob_id)   \* RemoteContainsBlob
      ELSE FALSE


(***************************************************************************)
(* The Bucket and VBucket API (api::Bucket, api::VBucket).  A handle is    *)
(* the object's name_ and id_; a call yields the new directory state, the  *)
(* new handle and the status it reports (an exception is reported as its   *)
(* type).                                                                  *)
(***************************************************************************)
NoHandle == [exists |-> FALSE, name_ |-> <<>>, id_ |-> NullId]

IsValid(handle) == ~IsNullBucketId(handle.id_)

Outcome(m, handle, status) == [mdm |-> m, handle |-> handle, status |-> status]

Bucket_Bucket(m, rpc_node, initial_name) ==
  IF IsBucketNameTooLong(initial_name)
  THEN Outcome(m, NoHandle, "length_error")
  ELSE LET r == GetOrCreateBucketId(m, rpc_node, initial_name)
       IN  IF IsNullBucketId(r.result)
           THEN Outcome(r.mdm, NoHandle, "runtime_error")
           ELSE Outcome(r.mdm, [exists |-> TRUE, name_ |-> initial_name, id_ |-> r.result],
                        "OK")

Bucket_Close(m, rpc_node, handle) ==
  IF IsValid(handle)
  THEN Outcome(DecrementRefcount(m, rpc_node, handle.id_),
               [handle EXCEPT !.id_ = NullId], "OK")
  ELSE Outcome(m, handle, "OK")

\* Bucket::Destroy that gives up the handle's id whether or not the bucket
\* was destroyed.
Bucket_Destroy_DropsId(m, rpc_node, handle) ==
  IF IsValid(handle)
  THEN LET r == DestroyBucket(m, rpc_node, handle.name_, handle.id_)
       IN  Outcome(r.mdm, [handle EXCEPT !.id_ = NullId],
                   IF r.result THEN "OK" ELSE "BUCKET_IN_USE")
  ELSE Outcome(m, handle, "OK")

Bucket_Destroy(m, rpc_node, handle) ==
  IF IsValid(handle)
  THEN LET r == DestroyBucket(m, rpc_node, handle.name_, handle.id_)
       IN  IF r.result
           THEN Outcome(r.mdm, [handle EXCEPT !.id_ = NullId], "OK")
           ELSE Outcome(r.mdm, handle, "BUCKET_IN_USE")
  ELSE Outcome(m, handle, "OK")

\* Bucket::Rename that reports a too long name but renames all the same.
Bucket_Rename_Unchecked(m, rpc_node, handle, new_name) ==
  Outcome(RenameBucket(m, rpc_node, handle.id_, handle.name_, new_name), handle,
          IF IsBucketNameTooLong(new_name) THEN "BUCKET_NAME_TOO_LONG" ELSE "OK")

Bucket_Rename(m, rpc_node, handle, new_name) ==
  IF IsBucketNameTooLong(new_name)
  THEN Outcome(m, handle, "BUCKET_NAME_TOO_LONG")
  ELSE Outcome(RenameBucket(m, rpc_node, handle.id_, handle.name_, new_name), handle, "OK")

Bucket_RenameBlob(m, rpc_node, handle, old_name, new_name) ==
  IF IsBlobNameTooLong(new_name)
  THEN Outcome(m, handle, "BLOB_NAME_TOO_LONG")
  ELSE Outcome(RenameBlob(m, rpc_node, old_name, new_name, handle.id_), handle, "OK")

Bucket_DeleteBlob(m, rpc_node, handle, name) ==
  Outcome(DestroyBlobByName(m, rpc_node, handle.id_, name), handle, "OK")

Bucket_ContainsBlob(m, rpc_node, handle, name) == ContainsBlob(m, rpc_node, handle.id_, name)

Bucket_BlobIsInSwap(m, rpc_node, handle, name) ==
  BlobIsInSwap(GetBlobId(m, rpc_node, name, handle.id_))

VBucket_VBucket(m, rpc_node, initial_name) ==
  IF IsVBucketNameTooLong(initial_name)
  THEN Outcome(m, NoHandle, "length_error")
  ELSE LET r == GetOrCreateVBucketId(m, rpc_node, initial_name)
       IN  IF IsNullVBucketId(r.result)
           THEN Outcome(r.mdm, NoHandle, "runtime_error")
           ELSE Outcome(r.mdm, [exists |-> TRUE, name_ |-> initial_name, id_ |-> r.result],
                        "OK")

(***************************************************************************)
(* State.                                                                  *)
(*   mdm      the MetadataManager of every node                            *)
(*   mutex    bucket_mutex and vbucket_mutex of every node                 *)
(*   handles  the api::Bucket objects of the clients                       *)
(*   procs    the clients inside a GetOrCreate call (SpecConc)             *)
(***************************************************************************)
VARIABLES mdm, mutex, handles, procs

vars == <<mdm, mutex, handles, procs>>

Handles == 1..MaxHandles

Procs == 1..NumProcs

\* The node a client runs on (rpc->node_id of its Hermes instance).
HandleNode(h) == ((h - 1) % NumNodes) + 1

ProcNode(p) == ((p - 1) % NumNodes) + 1

InitTicketMutex == [ticket |-> 0, serving |-> 0]

IdleProc == [pc |-> "idle", kind |-> kMapType_Bucket, name |-> <<>>, my_ticket |-> 0,
             result |-> NullId]

Init ==
  /\ mdm = [n \in Nodes |-> InitMetadataManager(n)]
  /\ mutex = [n \in Nodes |-> [bucket_mutex |-> InitTicketMutex,
                               vbucket_mutex |-> InitTicketMutex]]
  /\ handles = [h \in Handles |-> NoHandle]
  /\ procs = [p \in Procs |-> IdleProc]

(***************************************************************************)
(* The clients' calls, each run to completion.  A critical section that    *)
(* has run to completion has taken and returned its ticket, so the         *)
(* mutexes are left as they were.                                          *)
(***************************************************************************)
Apply(h, r) ==
  /\ mdm' = r.mdm
  /\ handles' = [handles EXCEPT ![h] = r.handle]
  /\ UNCHANGED <<mutex, procs>>

OpenBucket(h, initial_name) ==
  /\ ~handles[h].exists
  /\ Apply(h, Bucket_Bucket(mdm, HandleNode(h), initial_name))

CloseBucket(h) ==
  /\ handles[h].exists
  /\ Apply(h, Bucket_Close(mdm, HandleNode(h), handles[h]))

DestroyBucketCall(h) ==
  /\ handles[h].exists
  /\ Apply(h, Bucket_Destroy(mdm, HandleNode(h), handles[h]))

\* A handle whose id_ is null would send RenameBucket to node 0, which does not
\* exist; the model renames through valid handles only.
RenameBucketCall(h, new_name) ==
  /\ handles[h].exists
  /\ IsValid(handles[h])
  /\ Apply(h, Bucket_Rename(mdm, HandleNode(h), handles[h], new_name))

RenameBlobCall(h, old_name, new_name) ==
  /\ handles[h].exists
  /\ Apply(h, Bucket_RenameBlob(mdm, HandleNode(h), handles[h], old_name, new_name))

DeleteBlobCall(h, name) ==
  /\ handles[h].exists
  /\ Apply(h, Bucket_DeleteBlob(mdm, HandleNode(h), handles[h], name))

\* The blob names that can be in the directory.
StoredBlobNames == {n \in BlobNames : ~IsBlobNameTooLong(n)}

\* The buffer-id lists a placement hands to AttachBlobToBucket.
BufferIdLists == {<<MakeId(1, 1)>>}

\* The tail of a Put through a valid handle: the blob's buffers are bound to
\* its name.  The list pool of the target node must have room (the arena is
\* not exhausted).
AttachBlobCall(h, blob_name, buffer_ids, is_swap_blob) ==
  /\ handles[h].exists
  /\ IsValid(handles[h])
  /\ ~IsBlobNameTooLong(blob_name)
  /\ FreeIdListOffsets(mdm, HashString(blob_name)) # {}
  /\ mdm' = AttachBlobToBucket(mdm, HandleNode(h), blob_name, handles[h].id_, buffer_ids,
                               is_swap_blob)
  /\ UNCHANGED <<handles, mutex, procs>>

\* The clients construct at most MaxVHandles VBucket objects in all (every
\* successful construction holds one reference).
RECURSIVE SumRefs(_, _)
SumRefs(info, n) == IF n = 0 THEN 0 ELSE info[n - 1].ref_count + SumRefs(info, n - 1)

RECURSIVE NumVHandles(_, _)
NumVHandles(m, n) ==
  IF n = 0 THEN 0 ELSE SumRefs(m[n].vbucket_info, MaxVBuckets) + NumVHandles(m, n - 1)

OpenVBucket(node, initial_name) ==
  /\ NumVHandles(mdm, NumNodes) < MaxVHandles
  /\ mdm' = VBucket_VBucket(mdm, node, initial_name).mdm
  /\ UNCHANGED <<handles, mutex, procs>>

\* The life of buckets and vbuckets.
Next ==
  \/ \E h \in Handles, n \in BucketNames : OpenBucket(h, n)
  \/ \E h \in Handles : CloseBucket(h)
  \/ \E h \in Handles : DestroyBucketCall(h)
  \/ \E h \in Handles, n \in BucketNames : RenameBucketCall(h, n)
  \/ \E node \in Nodes, n \in VBucketNames : OpenVBucket(node, n)

Spec == Init /\ [][Next]_vars

\* The life of buckets and vbuckets together with the blobs put in buckets.
NextBlob ==
  \/ Next
  \/ \E h \in Handles, o \in StoredBlobNames, n \in BlobNames : RenameBlobCall(h, o, n)
  \/ \E h \in Handles, n \in StoredBlobNames : DeleteBlobCall(h, n)
  \/ \E h \in Handles, n \in StoredBlobNames, b \in BufferIdLists, s \in BOOLEAN :
       AttachBlobCall(h, n, b, s)

SpecBlob == Init /\ [][NextBlob]_vars

(***************************************************************************)
(* Blob operations on two open buckets.  The clients of handles 1 and 2    *)
(* have each opened a bucket of their own; from there on blobs are put,    *)
(* renamed and destroyed, by name through the handles and by id from any   *)
(* node.                                                                   *)
(***************************************************************************)
\* The buffer-id lists placements hand to AttachBlobToBucket.
PlacedBufferIds == {<<MakeId(1, 1)>>, <<MakeId(2, 1), MakeId(1, 2)>>}

InitBlobOps ==
  LET first == Bucket_Bucket([n \in Nodes |-> InitMetadataManager(n)], HandleNode(1), <<97>>)
      second == Bucket_Bucket(first.mdm, HandleNode(2), <<98>>)
  IN  /\ mdm = second.mdm
      /\ handles = [h \in Handles |-> IF h = 1 THEN first.handle
                                      ELSE IF h = 2 THEN second.handle ELSE NoHandle]
      /\ mutex = [n \in Nodes |-> [bucket_mutex |-> InitTicketMutex,
                                   vbucket_mutex |-> InitTicketMutex]]
      /\ procs = [p \in Procs |-> IdleProc]

\* A Put whose bucket has room for another blob id.
PutBlobCall(h, blob_name, buffer_ids, is_swap_blob) ==
  /\ handles[h].exists
  /\ IsValid(handles[h])
  /\ Len(SlotOfBucket(mdm, handles[h].id_).blobs) < MaxBlobsPerBucket
  /\ AttachBlobCall(h, blob_name, buffer_ids, is_swap_blob)

\* DestroyBlobById, from any node, of a blob the directory knows under a name
\* of the bucket.
DestroyBlobByIdCall(node, h, name) ==
  /\ handles[h].exists
  /\ IsValid(handles[h])
  /\ ~IsNullBlobId(GetBlobId(mdm, node, name, handles[h].id_))
  /\ mdm' = DestroyBlobById(mdm, node, GetBlobId(mdm, node, name, handles[h].id_),
                            handles[h].id_)
  /\ UNCHANGED <<handles, mutex, procs>>

NextBlobOps ==
  \/ \E h \in Handles, n \in StoredBlobNames, b \in PlacedBufferIds, s \in BOOLEAN :
       PutBlobCall(h, n, b, s)
  \/ \E h \in Handles, o \in StoredBlobNames, n \in StoredBlobNames : RenameBlobCall(h, o, n)
  \/ \E h \in Handles, n \in StoredBlobNames : DeleteBlobCall(h, n)

SpecBlobOps == InitBlobOps /\ [][NextBlobOps]_vars

\* The same clients when blobs are destroyed by id instead of renamed.
NextBlobById ==
  \/ \E h \in Handles, n \in StoredBlobNames, b \in PlacedBufferIds, s \in BOOLEAN :
       PutBlobCall(h, n, b, s)
  \/ \E h \in Handles, n \in StoredBlobNames : DeleteBlobCall(h, n)
  \/ \E node \in Nodes, h \in Handles, n \in StoredBlobNames : DestroyBlobByIdCall(node, h, n)

SpecBlobById == InitBlobOps /\ [][NextBlobById]_vars

(***************************************************************************)
(* Bucket::Put of one blob.  The data pointer is either null or points at  *)
(* the caller's bytes; size is the length the caller states.               *)
(***************************************************************************)
MaxPutSize == 2

nullptr == "nullptr"

DataPointers == {nullptr, "data"}

\* The buffer-id lists a placement of size bytes can hand over: none for an
\* empty blob.
PutPlacements(size) == IF size = 0 THEN {<<>>} ELSE PlacedBufferIds

\* Put(names, blobs, ctx) for one blob: placement, then AttachBlobToBucket.
Bucket_PutBlobs(m, rpc_node, handle, name, buffer_ids) ==
  IF ~IsValid(handle)
  THEN Outcome(m, handle, "INVALID_BUCKET")
  ELSE IF IsBlobNameTooLong(name)
  THEN Outcome(m, handle, "BLOB_NAME_TOO_LONG")
  ELSE IF FreeIdListOffsets(m, HashString(name)) = {}
  THEN Outcome(m, handle, "ARENA_EXHAUSTED")
  ELSE Outcome(AttachBlobToBucket(m, rpc_node, name, handle.id_, buffer_ids, FALSE),
               handle, "OK")

\* Bucket::Put without the test of the data pointer.
Bucket_Put_Unchecked(m, rpc_node, handle, name, data, size, buffer_ids) ==
  Bucket_PutBlobs(m, rpc_node, handle, name, buffer_ids)

Bucket_Put(m, rpc_node, handle, name, data, size, buffer_ids) ==
  IF size > 0 /\ data = nullptr
  THEN Outcome(m, handle, "INVALID_BLOB")
  ELSE Bucket_PutBlobs(m, rpc_node, handle, name, buffer_ids)

BucketPutCall(h, name, data, size, buffer_ids) ==
  /\ handles[h].exists
  /\ IsValid(handles[h])
  /\ Len(SlotOfBucket(mdm, handles[h].id_).blobs) < MaxBlobsPerBucket
  /\ buffer_ids \in PutPlacements(size)
  /\ Apply(h, Bucket_Put(mdm, HandleNode(h), handles[h], name, data, size, buffer_ids))

NextPut ==
  \/ \E h \in Handles, n \in BlobNames, d \in DataPointers, size \in 0..MaxPutSize,
        b \in PlacedBufferIds \cup {<<>>} : BucketPutCall(h, n, d, size, b)
  \/ \E h \in Handles, o \in StoredBlobNames, n \in StoredBlobNames : RenameBlobCall(h, o, n)
  \/ \E h \in Handles, n \in StoredBlobNames : DeleteBlobCall(h, n)

SpecPut == InitBlobOps /\ [][NextPut]_vars

\* The same clients when a blob may also carry the empty name.
NamesOfBlobs == {<<>>} \cup StoredBlobNames

NextReverse ==
  \/ \E h \in Handles, n \in NamesOfBlobs, b \in PlacedBufferIds, s \in BOOLEAN :
       PutBlobCall(h, n, b, s)
  \/ \E h \in Handles, o \in NamesOfBlobs, n \in NamesOfBlobs : RenameBlobCall(h, o, n)
  \/ \E h \in Handles, n \in NamesOfBlobs : DeleteBlobCall(h, n)

SpecReverse == InitBlobOps /\ [][NextReverse]_vars

(***************************************************************************)
(* Swap blobs.  A blob no tier can hold is written to the swap file and    *)
(* described by a SwapBlob record; the record is packed into a BufferID    *)
(* list, one 64-bit as_int per member, and attached with is_swap_blob set. *)
(* An id's as_int holds node_id in the high and the index in the low half  *)
(* of the word.  Words are scaled: a u32 has HalfWordBits bits, a u64      *)
(* twice as many.                                                          *)
(***************************************************************************)
U32 == 2 ^ HalfWordBits

U64 == U32 * U32

\* The two views of the id union: as_int and bits.
AsInt(id) == id.node_id * U32 + id.index

IdOfInt(v) == MakeId(v \div U32, v % U32)

\* enum SwapBlobMembers (not in the sources at hand; the order of the
\* members of SwapBlob).
SwapBlobMembers_NodeId == 1
SwapBlobMembers_Offset == 2
SwapBlobMembers_Size == 3
SwapBlobMembers_BucketId == 4
SwapBlobMembers_Count == 4

\* SwapBlobToVec that leaves the size member of the list zero.
SwapBlobToVec_NoSize(swap_blob) ==
  [i \in 1..SwapBlobMembers_Count |->
     IF i = SwapBlobMembers_NodeId THEN IdOfInt(swap_blob.node_id)
     ELSE IF i = SwapBlobMembers_Offset THEN IdOfInt(swap_blob.offset)
     ELSE IF i = SwapBlobMembers_Size THEN IdOfInt(0)
     ELSE IdOfInt(AsInt(swap_blob.bucket_id))]

SwapBlobToVec(swap_blob) ==
  [i \in 1..SwapBlobMembers_Count |->
     IF i = SwapBlobMembers_NodeId THEN IdOfInt(swap_blob.node_id)
     ELSE IF i = SwapBlobMembers_Offset THEN IdOfInt(swap_blob.offset)
     ELSE IF i = SwapBlobMembers_Size THEN IdOfInt(swap_blob.size)
     ELSE IdOfInt(AsInt(swap_blob.bucket_id))]

\* A list of another length is not decoded (HERMES_NOT_IMPLEMENTED_YET): the
\* zero record comes back.
VecToSwapBlob(vec) ==
  IF Len(vec) = SwapBlobMembers_Count
  THEN [node_id |-> AsInt(vec[SwapBlobMembers_NodeId]) % U32,
        offset |-> AsInt(vec[SwapBlobMembers_Offset]),
        size |-> AsInt(vec[SwapBlobMembers_Size]),
        bucket_id |-> IdOfInt(AsInt(vec[SwapBlobMembers_BucketId]))]
  ELSE [node_id |-> 0, offset |-> 0, size |-> 0, bucket_id |-> NullId]

IdArrayToSwapBlob(ids) == VecToSwapBlob(ids)

\* The SwapBlob records of spilled blobs: written by any node, at the start
\* or at the far end of the swap file (offset is a u64), of size 1 or
\* MaxSwapBlobSize, for any bucket slot.
MaxSwapBlobSize == 100

SwapBlobs ==
  [node_id : Nodes, offset : {0, U64 - 1}, size : {1, MaxSwapBlobSize},
   bucket_id : {MakeId(n, i) : n \in Nodes, i \in 0..(MaxBuckets - 1)}]

\* The swap path of a Put (not in the sources at hand): the record of the
\* blob names its bucket, is packed with SwapBlobToVec and attached as a
\* swap blob.
PutToSwapCall(h, blob_name, swap_blob) ==
  /\ swap_blob.bucket_id = handles[h].id_
  /\ PutBlobCall(h, blob_name, SwapBlobToVec(swap_blob), TRUE)

NextSwap ==
  \/ \E h \in Handles, n \in StoredBlobNames, s \in SwapBlobs : PutToSwapCall(h, n, s)
  \/ \E h \in Handles, n \in StoredBlobNames, b \in PlacedBufferIds : PutBlobCall(h, n, b, FALSE)
  \/ \E h \in Handles, o \in StoredBlobNames, n \in StoredBlobNames : RenameBlobCall(h, o, n)
  \/ \E h \in Handles, n \in StoredBlobNames : DeleteBlobCall(h, n)

SpecSwap == InitBlobOps /\ [][NextSwap]_vars

(***************************************************************************)
(* Renames step by step.  RenameBlob and LocalRenameBucket hold no lock:   *)
(* each map access (GetBlobId, DeleteBlobId/DeleteBucketId,                *)
(* PutBlobId/PutBucketId) is a call of its own, possibly to another node,  *)
(* and the calls of other clients interleave with them.  A client's record *)
(* holds the locals of its call.                                           *)
(***************************************************************************)
IdleRename == [pc |-> "idle", rpc_node |-> 0, old_name |-> <<>>, new_name |-> <<>>,
               bucket_id |-> NullId, blob_id |-> NullId]

InitRename ==
  LET first == Bucket_Bucket([n \in Nodes |-> InitMetadataManager(n)], HandleNode(1), <<97>>)
      second == Bucket_Bucket(first.mdm, HandleNode(2), <<98>>)
  IN  /\ mdm = second.mdm
      /\ handles = [h \in Handles |-> IF h = 1 THEN first.handle
                                      ELSE IF h = 2 THEN second.handle ELSE NoHandle]
      /\ mutex = [n \in Nodes |-> [bucket_mutex |-> InitTicketMutex,
                                   vbucket_mutex |-> InitTicketMutex]]
      /\ procs = [p \in Procs |-> IdleRename]

\* Bucket::RenameBlob up to RenameBlob's GetBlobId: a too long name or a
\* missing blob ends the call with nothing done.
RenameBlobGet(p, h, old_name, new_name) ==
  /\ procs[p].pc = "idle"
  /\ handles[h].exists
  /\ IsValid(handles[h])
  /\ ~IsBlobNameTooLong(new_name)
  /\ ~IsNullBlobId(GetBlobId(mdm, HandleNode(h), old_name, handles[h].id_))
  /\ procs' = [procs EXCEPT ![p] =
                 [pc |-> "delete_blob_id", rpc_node |-> HandleNode(h),
                  old_name |-> old_name, new_name |-> new_name,
                  bucket_id |-> handles[h].id_,
                  blob_id |-> GetBlobId(mdm, HandleNode(h), old_name, handles[h].id_)]]
  /\ UNCHANGED <<mdm, handles, mutex>>

RenameBlobDelete(p) ==
  /\ procs[p].pc = "delete_blob_id"
  /\ mdm' = DeleteBlobId(mdm, procs[p].rpc_node, procs[p].old_name, procs[p].bucket_id)
  /\ procs' = [procs EXCEPT ![p].pc = "put_blob_id"]
  /\ UNCHANGED <<handles, mutex>>

RenameBlobPut(p) ==
  /\ procs[p].pc = "put_blob_id"
  /\ mdm' = PutBlobId(mdm, procs[p].rpc_node, procs[p].new_name, procs[p].blob_id,
                      procs[p].bucket_id)
  /\ procs' = [procs EXCEPT ![p] = IdleRename]
  /\ UNCHANGED <<handles, mutex>>

\* Bucket::Rename up to the dispatch of RenameBucket to the bucket's node.
RenameBucketBegin(p, h, new_name) ==
  /\ procs[p].pc = "idle"
  /\ handles[h].exists
  /\ IsValid(handles[h])
  /\ ~IsBucketNameTooLong(new_name)
  /\ procs' = [procs EXCEPT ![p] =
                 [pc |-> "delete_bucket_id", rpc_node |-> handles[h].id_.node_id,
                  old_name |-> handles[h].name_, new_name |-> new_name,
                  bucket_id |-> handles[h].id_, blob_id |-> NullId]]
  /\ UNCHANGED <<mdm, handles, mutex>>

RenameBucketDelete(p) ==
  /\ procs[p].pc = "delete_bucket_id"
  /\ mdm' = DeleteBucketId(mdm, procs[p].rpc_node, procs[p].old_name)
  /\ procs' = [procs EXCEPT ![p].pc = "put_bucket_id"]
  /\ UNCHANGED <<handles, mutex>>

RenameBucketPut(p) ==
  /\ procs[p].pc = "put_bucket_id"
  /\ mdm' = PutBucketId(mdm, procs[p].rpc_node, procs[p].new_name, procs[p].bucket_id)
  /\ procs' = [procs EXCEPT ![p] = IdleRename]
  /\ UNCHANGED <<handles, mutex>>

\* The clients that work step by step, each through a handle of its own.
Clients == 1..NumClients

ClientHandle(p) == ((p - 1) % MaxHandles) + 1

NextRename ==
  \/ \E h \in Handles, n \in StoredBlobNames, b \in BufferIdLists : PutBlobCall(h, n, b, FALSE)
  \/ \E p \in Clients, o \in StoredBlobNames, n \in StoredBlobNames :
       RenameBlobGet(p, ClientHandle(p), o, n)
  \/ \E p \in Clients : RenameBlobDelete(p)
  \/ \E p \in Clients : RenameBlobPut(p)
  \/ \E p \in Clients, n \in BucketNames : RenameBucketBegin(p, ClientHandle(p), n)
  \/ \E p \in Clients : RenameBucketDelete(p)
  \/ \E p \in Clients : RenameBucketPut(p)

SpecRename == InitRename /\ [][NextRename]_vars

(***************************************************************************)
(* AttachBlobToBucket and DestroyBlobByName step by step.  Neither holds a *)
(* lock across its calls: the allocation of the list, the map update and   *)
(* the bucket update are calls of their own, possibly to three different   *)
(* nodes.  A client's record holds the locals of its call.                 *)
(***************************************************************************)
IdleBlobOp == [pc |-> "idle", rpc_node |-> 0, blob_name |-> <<>>, bucket_id |-> NullId,
               blob_id |-> NullId]

InitBlobSteps ==
  LET first == Bucket_Bucket([n \in Nodes |-> InitMetadataManager(n)], HandleNode(1), <<97>>)
      second == Bucket_Bucket(first.mdm, HandleNode(2), <<98>>)
  IN  /\ mdm = second.mdm
      /\ handles = [h \in Handles |-> IF h = 1 THEN first.handle
                                      ELSE IF h = 2 THEN second.handle ELSE NoHandle]
      /\ mutex = [n \in Nodes |-> [bucket_mutex |-> InitTicketMutex,
                                   vbucket_mutex |-> InitTicketMutex]]
      /\ procs = [p \in Procs |-> IdleBlobOp]

\* AttachBlobToBucket up to AllocateBufferIdList: the blob id is made.
AttachAllocate(p, h, blob_name, buffer_ids, is_swap_blob) ==
  LET target_node == HashString(blob_name)
      alloc == AllocateBufferIdList(mdm, HandleNode(h), target_node, buffer_ids)
  IN  /\ procs[p].pc = "idle"
      /\ handles[h].exists
      /\ IsValid(handles[h])
      /\ ~IsBlobNameTooLong(blob_name)
      /\ FreeIdListOffsets(mdm, target_node) # {}
      /\ Len(SlotOfBucket(mdm, handles[h].id_).blobs) < MaxBlobsPerBucket
      /\ mdm' = alloc.mdm
      /\ procs' = [procs EXCEPT ![p] =
                     [pc |-> "put_blob_id", rpc_node |-> HandleNode(h),
                      blob_name |-> blob_name, bucket_id |-> handles[h].id_,
                      blob_id |-> MakeId(IF is_swap_blob THEN 0 - target_node
                                                         ELSE target_node, alloc.result)]]
      /\ UNCHANGED <<handles, mutex>>

AttachPut(p) ==
  /\ procs[p].pc = "put_blob_id"
  /\ mdm' = PutBlobId(mdm, procs[p].rpc_node, procs[p].blob_name, procs[p].blob_id,
                      procs[p].bucket_id)
  /\ procs' = [procs EXCEPT ![p].pc = "add_blob_id_to_bucket"]
  /\ UNCHANGED <<handles, mutex>>

AttachAdd(p) ==
  /\ procs[p].pc = "add_blob_id_to_bucket"
  /\ mdm' = AddBlobIdToBucket(mdm, procs[p].rpc_node, procs[p].blob_id, procs[p].bucket_id)
  /\ procs' = [procs EXCEPT ![p] = IdleBlobOp]
  /\ UNCHANGED <<handles, mutex>>

\* DestroyBlobByName up to the dispatch of LocalDestroyBlobByName to the
\* blob's node (a missing blob ends the call with nothing done); the buffers
\* are released there.
DestroyGet(p, h, blob_name) ==
  /\ procs[p].pc = "idle"
  /\ handles[h].exists
  /\ IsValid(handles[h])
  /\ ~IsNullBlobId(GetBlobId(mdm, HandleNode(h), blob_name, handles[h].id_))
  /\ procs' = [procs EXCEPT ![p] =
                 [pc |-> "free_buffer_id_list", rpc_node |-> HandleNode(h),
                  blob_name |-> blob_name, bucket_id |-> handles[h].id_,
                  blob_id |-> GetBlobId(mdm, HandleNode(h), blob_name, handles[h].id_)]]
  /\ UNCHANGED <<mdm, handles, mutex>>

DestroyFree(p) ==
  /\ procs[p].pc = "free_buffer_id_list"
  /\ mdm' = FreeBufferIdList(mdm, GetBlobNodeId(procs[p].blob_id), procs[p].blob_id)
  /\ procs' = [procs EXCEPT ![p].pc = "delete_blob_id"]
  /\ UNCHANGED <<handles, mutex>>

DestroyDelete(p) ==
  /\ procs[p].pc = "delete_blob_id"
  /\ mdm' = DeleteBlobId(mdm, GetBlobNodeId(procs[p].blob_id), procs[p].blob_name,
                         procs[p].bucket_id)
  /\ procs' = [procs EXCEPT ![p].pc = "remove_blob_from_bucket_info"]
  /\ UNCHANGED <<handles, mutex>>

DestroyRemove(p) ==
  /\ procs[p].pc = "remove_blob_from_bucket_info"
  /\ mdm' = RemoveBlobFromBucketInfo(mdm, procs[p].rpc_node, procs[p].bucket_id,
                                     procs[p].blob_id)
  /\ procs' = [procs EXCEPT ![p] = IdleBlobOp]
  /\ UNCHANGED <<handles, mutex>>

NextBlobSteps ==
  \/ \E p \in Clients, n \in StoredBlobNames, b \in BufferIdLists, s \in BOOLEAN :
       AttachAllocate(p, ClientHandle(p), n, b, s)
  \/ \E p \in Clients : AttachPut(p)
  \/ \E p \in Clients : AttachAdd(p)
  \/ \E p \in Clients, n \in StoredBlobNames : DestroyGet(p, ClientHandle(p), n)
  \/ \E p \in Clients : DestroyFree(p)
  \/ \E p \in Clients : DestroyDelete(p)
  \/ \E p \in Clients : DestroyRemove(p)

SpecBlobSteps == InitBlobSteps /\ [][NextBlobSteps]_vars

(***************************************************************************)
(* DestroyBlobByName and DestroyBlobById call by call, with what each call *)
(* has given back: the buffers it handed to ReleaseBuffers and whether it  *)
(* has called FreeBufferIdList.  The record of a call lasts until the      *)
(* caller has its answer; blobs are put while no destroy is under way.     *)
(* All of it happens in the bucket of handle 1, from either node.          *)
(***************************************************************************)
IdleDestroy == [pc |-> "idle", rpc_node |-> 0, blob_name |-> <<>>, bucket_id |-> NullId,
                blob_id |-> NullId, by_id |-> FALSE, released |-> <<>>, freed |-> FALSE]

InitDestroy ==
  LET first == Bucket_Bucket([n \in Nodes |-> InitMetadataManager(n)], HandleNode(1), <<97>>)
      second == Bucket_Bucket(first.mdm, HandleNode(2), <<98>>)
  IN  /\ mdm = second.mdm
      /\ handles = [h \in Handles |-> IF h = 1 THEN first.handle
                                      ELSE IF h = 2 THEN second.handle ELSE NoHandle]
      /\ mutex = [n \in Nodes |-> [bucket_mutex |-> InitTicketMutex,
                                   vbucket_mutex |-> InitTicketMutex]]
      /\ procs = [p \in Procs |-> IdleDestroy]

PutBlobQuiet(h, blob_name, buffer_ids, is_swap_blob) ==
  /\ \A p \in Procs : procs[p].pc = "idle"
  /\ PutBlobCall(h, blob_name, buffer_ids, is_swap_blob)

\* DestroyBlobByName (by_id false) up to the dispatch of
\* LocalDestroyBlobByName, or DestroyBlobById (by_id true) of the id the
\* caller got for the name, up to the dispatch of LocalDestroyBlobById.
DestroyBlobBegin(p, h, blob_name, by_id) ==
  LET blob_id == GetBlobId(mdm, ProcNode(p), blob_name, handles[h].id_)
  IN  /\ procs[p].pc = "idle"
      /\ handles[h].exists
      /\ IsValid(handles[h])
      /\ ~IsNullBlobId(blob_id)
      /\ procs' = [procs EXCEPT ![p] =
                     [IdleDestroy EXCEPT !.pc = "release_buffers", !.rpc_node = ProcNode(p),
                                         !.blob_name = blob_name,
                                         !.bucket_id = handles[h].id_,
                                         !.blob_id = blob_id, !.by_id = by_id]]
      /\ UNCHANGED <<mdm, handles, mutex>>

\* GetBufferIdList and ReleaseBuffers, unless the blob is in swap.
DestroyReleaseBuffers(p) ==
  LET node == GetBlobNodeId(procs[p].blob_id)
  IN  /\ procs[p].pc = "release_buffers"
      /\ procs' = [procs EXCEPT ![p] =
                     [@ EXCEPT !.pc = "free_buffer_id_list",
                               !.released = IF BlobIsInSwap(procs[p].blob_id) THEN <<>>
                                            ELSE GetBufferIdList(mdm, node, procs[p].blob_id)]]
      /\ UNCHANGED <<mdm, handles, mutex>>

DestroyFreeBufferIdList(p) ==
  /\ procs[p].pc = "free_buffer_id_list"
  /\ mdm' = FreeBufferIdList(mdm, GetBlobNodeId(procs[p].blob_id), procs[p].blob_id)
  /\ procs' = [procs EXCEPT ![p] = [@ EXCEPT !.pc = "delete_blob_id", !.freed = TRUE]]
  /\ UNCHANGED <<handles, mutex>>

\* DeleteBlobId: of the name given, or of the name found for the id (and of
\* nothing if none is found).  LocalDestroyBlobById ends here.
DestroyDeleteBlobId(p) ==
  LET node == GetBlobNodeId(procs[p].blob_id)
      blob_name == IF procs[p].by_id THEN LocalGetBlobNameFromId(mdm, node, procs[p].blob_id)
                   ELSE procs[p].blob_name
  IN  /\ procs[p].pc = "delete_blob_id"
      /\ mdm' = IF procs[p].by_id /\ Len(blob_name) = 0 THEN mdm
                ELSE DeleteBlobId(mdm, node, blob_name, procs[p].bucket_id)
      /\ procs' = [procs EXCEPT ![p].pc = IF procs[p].by_id THEN "done"
                                          ELSE "remove_blob_from_bucket_info"]
      /\ UNCHANGED <<handles, mutex>>

DestroyRemoveFromBucketInfo(p) ==
  /\ procs[p].pc = "remove_blob_from_bucket_info"
  /\ mdm' = RemoveBlobFromBucketInfo(mdm, procs[p].rpc_node, procs[p].bucket_id,
                                     procs[p].blob_id)
  /\ procs' = [procs EXCEPT ![p].pc = "done"]
  /\ UNCHANGED <<handles, mutex>>

DestroyReturns(p) ==
  /\ procs[p].pc = "done"
  /\ procs' = [procs EXCEPT ![p] = IdleDestroy]
  /\ UNCHANGED <<mdm, handles, mutex>>

NextDestroy ==
  \/ \E n \in StoredBlobNames, s \in BOOLEAN :
       PutBlobQuiet(1, n, <<MakeId(2, 1), MakeId(1, 2)>>, s)
  \/ \E p \in Clients, n \in StoredBlobNames, by_id \in BOOLEAN :
       DestroyBlobBegin(p, 1, n, by_id)
  \/ \E p \in Clients : DestroyReleaseBuffers(p)
  \/ \E p \in Clients : DestroyFreeBufferIdList(p)
  \/ \E p \in Clients : DestroyDeleteBlobId(p)
  \/ \E p \in Clients : DestroyRemoveFromBucketInfo(p)
  \/ \E p \in Clients : DestroyReturns(p)

SpecDestroy == InitDestroy /\ [][NextDestroy]_vars

(***************************************************************************)
(* Failing remote calls.  One operation at a time runs call by call; a     *)
(* call that goes to another node may fail: its handler does not run and   *)
(* the operation ends there with the error.  The client keeps the state    *)
(* the operation started from.                                             *)
(***************************************************************************)
IdleRpcOp == [pc |-> "idle", rpc_node |-> 0, blob_name |-> <<>>, bucket_id |-> NullId,
              blob_id |-> NullId, before |-> <<>>]

InitRpc ==
  LET first == Bucket_Bucket([n \in Nodes |-> InitMetadataManager(n)], HandleNode(1), <<97>>)
      second == Bucket_Bucket(first.mdm, HandleNode(2), <<98>>)
  IN  /\ mdm = second.mdm
      /\ handles = [h \in Handles |-> IF h = 1 THEN first.handle
                                      ELSE IF h = 2 THEN second.handle ELSE NoHandle]
      /\ mutex = [n \in Nodes |-> [bucket_mutex |-> InitTicketMutex,
                                   vbucket_mutex |-> InitTicketMutex]]
      /\ procs = [p \in Procs |-> IdleRpcOp]

NoOperationRunning == \A q \in Procs : procs[q].pc = "idle"

\* The operation ends with the error of the call it was about to make.
RpcCallFails(p) ==
  /\ procs' = [procs EXCEPT ![p].pc = "rpc_failed"]
  /\ UNCHANGED <<mdm, handles, mutex>>

\* AttachBlobToBucket starts: target_node and the arguments are fixed.
RpcAttachBegin(p, h, blob_name, is_swap_blob) ==
  LET target_node == HashString(blob_name)
  IN  /\ NoOperationRunning
      /\ handles[h].exists
      /\ IsValid(handles[h])
      /\ ~IsBlobNameTooLong(blob_name)
      /\ FreeIdListOffsets(mdm, target_node) # {}
      /\ Len(SlotOfBucket(mdm, handles[h].id_).blobs) < MaxBlobsPerBucket
      /\ procs' = [procs EXCEPT ![p] =
                     [pc |-> "allocate_buffer_id_list", rpc_node |-> HandleNode(h),
                      blob_name |-> blob_name, bucket_id |-> handles[h].id_,
                      blob_id |-> MakeId(IF is_swap_blob THEN 0 - target_node
                                                         ELSE target_node, 0),
                      before |-> mdm]]
      /\ UNCHANGED <<mdm, handles, mutex>>

RpcAttachAllocate(p, buffer_ids) ==
  LET target_node == HashString(procs[p].blob_name)
      alloc == AllocateBufferIdList(mdm, procs[p].rpc_node, target_node, buffer_ids)
  IN  /\ procs[p].pc = "allocate_buffer_id_list"
      /\ mdm' = alloc.mdm
      /\ procs' = [procs EXCEPT ![p].pc = "put_blob_id", ![p].blob_id.index = alloc.result]
      /\ UNCHANGED <<handles, mutex>>

RpcAttachAllocateFails(p) ==
  /\ procs[p].pc = "allocate_buffer_id_list"
  /\ HashString(procs[p].blob_name) # procs[p].rpc_node
  /\ RpcCallFails(p)

RpcAttachPut(p) ==
  /\ procs[p].pc = "put_blob_id"
  /\ mdm' = PutBlobId(mdm, procs[p].rpc_node, procs[p].blob_name, procs[p].blob_id,
                      procs[p].bucket_id)
  /\ procs' = [procs EXCEPT ![p].pc = "add_blob_id_to_bucket"]
  /\ UNCHANGED <<handles, mutex>>

RpcAttachPutFails(p) ==
  /\ procs[p].pc = "put_blob_id"
  /\ HashString(MakeInternalBlobName(procs[p].blob_name, procs[p].bucket_id)) # procs[p].rpc_node
  /\ RpcCallFails(p)

RpcAttachAdd(p) ==
  /\ procs[p].pc = "add_blob_id_to_bucket"
  /\ mdm' = AddBlobIdToBucket(mdm, procs[p].rpc_node, procs[p].blob_id, procs[p].bucket_id)
  /\ procs' = [procs EXCEPT ![p] = IdleRpcOp]
  /\ UNCHANGED <<handles, mutex>>

RpcAttachAddFails(p) ==
  /\ procs[p].pc = "add_blob_id_to_bucket"
  /\ procs[p].bucket_id.node_id # procs[p].rpc_node
  /\ RpcCallFails(p)

\* DestroyBlobByName starts: the blob id is looked up.
RpcDestroyBegin(p, h, blob_name) ==
  /\ NoOperationRunning
  /\ handles[h].exists
  /\ IsValid(handles[h])
  /\ ~IsNullBlobId(GetBlobId(mdm, HandleNode(h), blob_name, handles[h].id_))
  /\ procs' = [procs EXCEPT ![p] =
                 [pc |-> "destroy_blob_by_name", rpc_node |-> HandleNode(h),
                  blob_name |-> blob_name, bucket_id |-> handles[h].id_,
                  blob_id |-> GetBlobId(mdm, HandleNode(h), blob_name, handles[h].id_),
                  before |-> mdm]]
  /\ UNCHANGED <<mdm, handles, mutex>>

\* LocalDestroyBlobByName on the blob's node.
RpcDestroyLocal(p) ==
  /\ procs[p].pc = "destroy_blob_by_name"
  /\ mdm' = LocalDestroyBlobByName(mdm, GetBlobNodeId(procs[p].blob_id), procs[p].blob_name,
                                   procs[p].blob_id, procs[p].bucket_id)
  /\ procs' = [procs EXCEPT ![p].pc = "remove_blob_from_bucket_info"]
  /\ UNCHANGED <<handles, mutex>>

RpcDestroyLocalFails(p) ==
  /\ procs[p].pc = "destroy_blob_by_name"
  /\ GetBlobNodeId(procs[p].blob_id) # procs[p].rpc_node
  /\ RpcCallFails(p)

RpcDestroyRemove(p) ==
  /\ procs[p].pc = "remove_blob_from_bucket_info"
  /\ mdm' = RemoveBlobFromBucketInfo(mdm, procs[p].rpc_node, procs[p].bucket_id,
                                     procs[p].blob_id)
  /\ procs' = [procs EXCEPT ![p] = IdleRpcOp]
  /\ UNCHANGED <<handles, mutex>>

RpcDestroyRemoveFails(p) ==
  /\ procs[p].pc = "remove_blob_from_bucket_info"
  /\ procs[p].bucket_id.node_id # procs[p].rpc_node
  /\ RpcCallFails(p)

\* The caller has seen the error.
RpcFailureReturned(p) ==
  /\ procs[p].pc = "rpc_failed"
  /\ procs' = [procs EXCEPT ![p] = IdleRpcOp]
  /\ UNCHANGED <<mdm, handles, mutex>>

NextRpc ==
  \/ \E p \in Clients, n \in StoredBlobNames, s \in BOOLEAN :
       RpcAttachBegin(p, ClientHandle(p), n, s)
  \/ \E p \in Clients, b \in BufferIdLists : RpcAttachAllocate(p, b)
  \/ \E p \in Clients : RpcAttachAllocateFails(p)
  \/ \E p \in Clients : RpcAttachPut(p)
  \/ \E p \in Clients : RpcAttachPutFails(p)
  \/ \E p \in Clients : RpcAttachAdd(p)
  \/ \E p \in Clients : RpcAttachAddFails(p)
  \/ \E p \in Clients, n \in StoredBlobNames : RpcDestroyBegin(p, ClientHandle(p), n)
  \/ \E p \in Clients : RpcDestroyLocal(p)
  \/ \E p \in Clients : RpcDestroyLocalFails(p)
  \/ \E p \in Clients : RpcDestroyRemove(p)
  \/ \E p \in Clients : RpcDestroyRemoveFails(p)
  \/ \E p \in Clients : RpcFailureReturned(p)

SpecRpc == InitRpc /\ [][NextRpc]_vars

(***************************************************************************)
(* System view state.  Every node counts in capacity_adjustments what its  *)
(* allocations and releases change on each device; UpdateGlobalSystemView- *)
(* State hands the counts to the node that holds the global view.  In this *)
(* part mdm[n] is the node's share of that state: bytes_available is the   *)
(* global SystemViewState (read on node global_system_view_state_node_id   *)
(* only), remaining the free space of the node's own devices.  Counters    *)
(* are atomics: each load, exchange and fetch_add is a step of its own.    *)
(* bytes_available is a u64, an adjustment an i64.                         *)
(***************************************************************************)
NumDevices == 2

Devices == 1..NumDevices

\* config->capacities[d], the same on every node.
DeviceCapacity == 1

global_system_view_state_node_id == 1

CreateSystemViewState == [d \in Devices |-> DeviceCapacity]

InitSystemNode(node) ==
  [capacity_adjustments |-> [d \in Devices |-> 0],
   bytes_available |-> CreateSystemViewState,
   remaining |-> [d \in Devices |-> DeviceCapacity]]

IdleUpdater == [pc |-> "idle", i |-> 1, adjustments |-> [d \in Devices |-> 0],
                update_needed |-> FALSE]

InitSvs ==
  /\ mdm = [n \in Nodes |-> InitSystemNode(n)]
  /\ handles = [h \in Handles |-> NoHandle]
  /\ mutex = [n \in Nodes |-> [bucket_mutex |-> InitTicketMutex,
                               vbucket_mutex |-> InitTicketMutex]]
  /\ procs = [p \in Procs |-> IdleUpdater]

\* An allocation (delta < 0) or a release (delta > 0) of bytes of a device
\* of the node (the buffer pool's part, not in the sources at hand): the
\* count is added to capacity_adjustments.
AdjustCapacity(node, d, delta) ==
  /\ mdm[node].remaining[d] + delta \in 0..DeviceCapacity
  /\ mdm' = [mdm EXCEPT ![node].remaining[d] = @ + delta,
                        ![node].capacity_adjustments[d] = @ + delta]
  /\ UNCHANGED <<handles, mutex, procs>>

UpdateBegin(p) ==
  /\ procs[p].pc = "idle"
  /\ procs' = [procs EXCEPT ![p] = [IdleUpdater EXCEPT !.pc = "exchange"]]
  /\ UNCHANGED <<mdm, handles, mutex>>

\* UpdateGlobalSystemViewState that stores 0 in the counter without keeping
\* the value it replaces.
UpdateExchange_DropsValue(p) ==
  LET node == ProcNode(p)
      i == procs[p].i
  IN  /\ procs[p].pc = "exchange"
      /\ mdm' = [mdm EXCEPT ![node].capacity_adjustments[i] = 0]
      /\ procs' = [procs EXCEPT
                     ![p].adjustments[i] = 0,
                     ![p].i = IF i < NumDevices THEN i + 1 ELSE 1,
                     ![p].pc = IF i < NumDevices THEN "exchange" ELSE "idle"]
      /\ UNCHANGED <<handles, mutex>>

\* One turn of the first loop: adjustments[i] = capacity_adjustments[i].exchange(0).
\* After the last device the update is sent if some adjustment is not 0.
UpdateExchange(p) ==
  LET node == ProcNode(p)
      i == procs[p].i
      value == mdm[node].capacity_adjustments[i]
      needed == procs[p].update_needed \/ value # 0
  IN  /\ procs[p].pc = "exchange"
      /\ mdm' = [mdm EXCEPT ![node].capacity_adjustments[i] = 0]
      /\ procs' = [procs EXCEPT
                     ![p].adjustments[i] = value,
                     ![p].update_needed = needed,
                     ![p].i = IF i < NumDevices THEN i + 1 ELSE 1,
                     ![p].pc = IF i < NumDevices THEN "exchange"
                               ELSE IF needed THEN "update" ELSE "idle"]
      /\ UNCHANGED <<handles, mutex>>

\* LocalUpdateGlobalSystemViewState that stores the configured capacity plus
\* the adjustment instead of adding to the counter.
LocalUpdateGlobalSystemViewState_Overwrites(m, i, adjustments) ==
  IF adjustments[i] # 0
  THEN [m EXCEPT ![global_system_view_state_node_id].bytes_available[i] =
                    (CreateSystemViewState[i] + adjustments[i]) % U64]
  ELSE m

\* One turn of the loop of LocalUpdateGlobalSystemViewState, run on the
\* global node by the caller itself or by the handler of its
\* RemoteUpdateGlobalSystemViewState call.
LocalUpdateGlobalSystemViewState(m, i, adjustments) ==
  IF adjustments[i] # 0
  THEN [m EXCEPT ![global_system_view_state_node_id].bytes_available[i] =
                    (@ + adjustments[i]) % U64]
  ELSE m

UpdateApply(p) ==
  LET i == procs[p].i
  IN  /\ procs[p].pc = "update"
      /\ mdm' = LocalUpdateGlobalSystemViewState(mdm, i, procs[p].adjustments)
      /\ procs' = [procs EXCEPT ![p] = IF i < NumDevices THEN [@ EXCEPT !.i = i + 1]
                                       ELSE IdleUpdater]
      /\ UNCHANGED <<handles, mutex>>

LocalGetGlobalDeviceCapacities(m, node) == [d \in Devices |-> m[node].bytes_available[d]]

GetGlobalDeviceCapacities(m, rpc_node) ==
  LET target_node == global_system_view_state_node_id
  IN  IF target_node = rpc_node
      THEN LocalGetGlobalDeviceCapacities(m, rpc_node)
      ELSE LocalGetGlobalDeviceCapacities(m, target_node)   \* RemoteGetGlobalDeviceCapacities

NextSvs ==
  \/ \E n \in Nodes, d \in Devices, delta \in {0 - 1, 1} : AdjustCapacity(n, d, delta)
  \/ \E p \in Procs : UpdateBegin(p)
  \/ \E p \in Procs : UpdateExchange(p)
  \/ \E p \in Procs : UpdateApply(p)

SpecSvs == InitSvs /\ [][NextSvs]_vars

\* One updater per node, as the periodic update of a node runs; a round that
\* has begun goes on, and a new round begins again and again.
NextSvsRounds ==
  \/ \E n \in Nodes, d \in Devices, delta \in {0 - 1, 1} : AdjustCapacity(n, d, delta)
  \/ \E p \in Clients : UpdateBegin(p)
  \/ \E p \in Clients : UpdateExchange(p)
  \/ \E p \in Clients : UpdateApply(p)

SpecSvsRounds ==
  /\ InitSvs
  /\ [][NextSvsRounds]_vars
  /\ \A p \in Clients :
       WF_vars(UpdateBegin(p)) /\ WF_vars(UpdateExchange(p)) /\ WF_vars(UpdateApply(p))

(***************************************************************************)
(* Neighborhood targets.  The nodes 1..num_nodes form a ring; a TargetID   *)
(* is a (node_id, device_id) pair.  In this part mdm[n] holds the targets  *)
(* of node n, one per device the node has, and the ring has as many nodes  *)
(* as mdm has entries.                                                     *)
(***************************************************************************)
MaxRingNodes == 4

RpcContext(node, count) == [node_id |-> node, num_nodes |-> count]

GetRelativeNodeId(rpc, offset) ==
  LET result == rpc.node_id + offset
  IN  IF result > rpc.num_nodes THEN 1
      ELSE IF result = 0 THEN rpc.num_nodes
      ELSE result

GetNextNode(rpc) == GetRelativeNodeId(rpc, 1)

GetPreviousNode(rpc) == GetRelativeNodeId(rpc, 0 - 1)

\* Not in the sources at hand: the targets of the node itself.
LocalGetNodeTargets(m, node) == m[node].node_targets

GetNodeTargets(m, rpc, target_node) ==
  IF target_node = rpc.node_id
  THEN LocalGetNodeTargets(m, rpc.node_id)
  ELSE LocalGetNodeTargets(m, target_node)   \* RemoteGetNodeTargets

GetNeighborhoodTargets(m, rpc) ==
  IF rpc.num_nodes = 1 THEN <<>>
  ELSE IF rpc.num_nodes = 2 THEN GetNodeTargets(m, rpc, GetNextNode(rpc))
  ELSE GetNodeTargets(m, rpc, GetNextNode(rpc)) \o GetNodeTargets(m, rpc, GetPreviousNode(rpc))

IdleRingCall == [pc |-> "idle", node_id |-> 0, result |-> <<>>]

InitRing ==
  /\ \E count \in 1..MaxRingNodes :
       \E devices \in [1..count -> Devices] :
          mdm = [n \in 1..count |->
                   [node_targets |-> [d \in 1..devices[n] |-> [node_id |-> n, device_id |-> d]]]]
  /\ handles = [h \in Handles |-> NoHandle]
  /\ mutex = [n \in Nodes |-> [bucket_mutex |-> InitTicketMutex,
                               vbucket_mutex |-> InitTicketMutex]]
  /\ procs = [p \in Procs |-> IdleRingCall]

GetNeighborhoodTargetsCall(p, node) ==
  /\ procs[p].pc = "idle"
  /\ node \in 1..Len(mdm)
  /\ procs' = [procs EXCEPT ![p] =
                 [pc |-> "done", node_id |-> node,
                  result |-> GetNeighborhoodTargets(mdm, RpcContext(node, Len(mdm)))]]
  /\ UNCHANGED <<mdm, handles, mutex>>

ForgetNeighborhoodTargets(p) ==
  /\ procs[p].pc = "done"
  /\ procs' = [procs EXCEPT ![p] = IdleRingCall]
  /\ UNCHANGED <<mdm, handles, mutex>>

NextRing ==
  \/ \E p \in Clients, node \in 1..MaxRingNodes : GetNeighborhoodTargetsCall(p, node)
  \/ \E p \in Clients : ForgetNeighborhoodTargets(p)

SpecRing == InitRing /\ [][NextRing]_vars

(***************************************************************************)
(* Buffer pool.  buffer_pool.h declares GetBuffers and ReleaseBuffers and  *)
(* defines BufferHeader; their bodies are not in the sources at hand and   *)
(* follow the design: every tier has one free list per slab class, linked  *)
(* through next_free; a buffer is popped from and pushed on the head of    *)
(* the list of its slab under the pool's ticket mutex, one buffer per      *)
(* critical section.  In this part mdm is the pool of one node: headers    *)
(* and free-list heads.  A BufferID is the index of its header; 0 is the   *)
(* null id.  Which slab class a request draws from is left open.           *)
(***************************************************************************)
NumTiers == 2

NumSlabs == 2

MaxSchemaBytes == 2

Tiers == 1..NumTiers

Slabs == 1..NumSlabs

\* The buffers of slab class s hold s blocks of one byte; a tier has more
\* small buffers than large ones: NumSlabs of the smallest class, one of the
\* largest.
SlabBufferCount(s) == NumSlabs - s + 1

RECURSIVE BuffersBelowSlab(_)
BuffersBelowSlab(s) == IF s = 1 THEN 0 ELSE BuffersBelowSlab(s - 1) + SlabBufferCount(s - 1)

BuffersPerTier == BuffersBelowSlab(NumSlabs + 1)

NumBuffers == NumTiers * BuffersPerTier

Buffers == 1..NumBuffers

TierOfBuffer(b) == ((b - 1) \div BuffersPerTier) + 1

FirstOfSlab(t, s) == (t - 1) * BuffersPerTier + BuffersBelowSlab(s) + 1

SlabOfBuffer(b) ==
  CHOOSE s \in Slabs : /\ FirstOfSlab(TierOfBuffer(b), s) <= b
                       /\ b < FirstOfSlab(TierOfBuffer(b), s) + SlabBufferCount(s)

SlabBufferSize(s) == s

InitBufferPool ==
  [headers |-> [b \in Buffers |->
                  [id |-> b,
                   next_free |-> IF b < NumBuffers /\ SlabOfBuffer(b + 1) = SlabOfBuffer(b)
                                 /\ TierOfBuffer(b + 1) = TierOfBuffer(b)
                                THEN b + 1 ELSE 0,
                   used |-> 0,
                   capacity |-> SlabBufferSize(SlabOfBuffer(b)),
                   tier_id |-> TierOfBuffer(b),
                   in_use |-> FALSE]],
   free_lists |-> [t \in Tiers |-> [s \in Slabs |->
                     FirstOfSlab(t, s)]]]

IdlePoolClient == [pc |-> "idle", schema |-> <<>>, remaining |-> 0,
                   taken |-> <<>>, result |-> <<>>, held |-> {}, before |-> <<>>]

InitPool ==
  /\ mdm = InitBufferPool
  /\ handles = [h \in Handles |-> NoHandle]
  /\ mutex = [n \in Nodes |-> [bucket_mutex |-> InitTicketMutex,
                               vbucket_mutex |-> InitTicketMutex]]
  /\ procs = [p \in Procs |-> IdlePoolClient]

\* TieredSchema: (tier, bytes) pairs.  One entry of any size, or two entries
\* of the largest size, in one tier or in two.
Schemas ==
  LET entries == [tier_id : Tiers, bytes : 1..MaxSchemaBytes]
      large == [tier_id : Tiers, bytes : {MaxSchemaBytes}]
  IN  {<<e>> : e \in entries} \cup {<<e, f>> : e \in large, f \in large}

PoolQuiescent == \A q \in Procs : procs[q].pc = "idle"

\* The client keeps the entries of the schema it has still to cover, the
\* first of them being under way.
GetBuffersBegin(p, schema, before) ==
  /\ procs[p].pc = "idle"
  /\ procs' = [procs EXCEPT ![p] =
                 [@ EXCEPT !.pc = "get_buffers", !.schema = schema,
                           !.remaining = schema[1].bytes, !.taken = <<>>,
                           !.result = <<>>, !.before = before]]
  /\ UNCHANGED <<mdm, handles, mutex>>

GetBuffersCall(p, schema) ==
  /\ schema \in Schemas
  /\ GetBuffersBegin(p, schema, <<>>)

\* A call that starts while no other call is under way; no other call starts
\* before it has returned.  The client keeps the pool and the schema of the
\* start.
GetBuffersCallAlone(p, schema) ==
  /\ PoolQuiescent
  /\ GetBuffersBegin(p, schema, [pool |-> mdm, schema |-> schema])

\* GetFreeBuffer that marks the buffer in use and leaves it at the head of
\* its free list.
GetFreeBuffer_LeavesOnList(p, slab) ==
  LET tier == procs[p].schema[1].tier_id
      b == mdm.free_lists[tier][slab]
      left == procs[p].remaining - mdm.headers[b].capacity
      last == Len(procs[p].schema) = 1
      taken == Append(procs[p].taken, b)
  IN  /\ procs[p].pc = "get_buffers"
      /\ b # 0
      /\ ~mdm.headers[b].in_use
      /\ mdm' = [mdm EXCEPT !.headers[b].used = 0,
                            !.headers[b].in_use = TRUE]
      /\ procs' = [procs EXCEPT ![p] =
                     IF left > 0 THEN [@ EXCEPT !.remaining = left, !.taken = taken]
                     ELSE IF ~last
                     THEN [@ EXCEPT !.schema = Tail(@),
                                    !.remaining = procs[p].schema[2].bytes,
                                    !.taken = taken]
                     ELSE [@ EXCEPT !.pc = "returned", !.schema = <<>>, !.remaining = 0,
                                    !.taken = <<>>, !.result = taken]]
      /\ UNCHANGED <<handles, mutex>>

\* One buffer comes off the head of a free list of the entry's tier and is
\* marked in use.  The entry is covered when the buffers taken for it hold
\* its bytes; when the last entry is covered the call returns what it took.
GetFreeBuffer(p, slab) ==
  LET tier == procs[p].schema[1].tier_id
      b == mdm.free_lists[tier][slab]
      left == procs[p].remaining - mdm.headers[b].capacity
      last == Len(procs[p].schema) = 1
      taken == Append(procs[p].taken, b)
  IN  /\ procs[p].pc = "get_buffers"
      /\ b # 0
      /\ mdm' = [mdm EXCEPT !.free_lists[tier][slab] = mdm.headers[b].next_free,
                            !.headers[b].next_free = 0,
                            !.headers[b].used = 0,
                            !.headers[b].in_use = TRUE]
      /\ procs' = [procs EXCEPT ![p] =
                     IF left > 0 THEN [@ EXCEPT !.remaining = left, !.taken = taken]
                     ELSE IF ~last
                     THEN [@ EXCEPT !.schema = Tail(@),
                                    !.remaining = procs[p].schema[2].bytes,
                                    !.taken = taken]
                     ELSE [@ EXCEPT !.pc = "returned", !.schema = <<>>, !.remaining = 0,
                                    !.taken = <<>>, !.result = taken]]
      /\ UNCHANGED <<handles, mutex>>

\* Every free list of the entry's tier is empty: the request fails as a
\* whole and what was taken goes back.
GetBuffersFails(p) ==
  LET tier == procs[p].schema[1].tier_id
  IN  /\ procs[p].pc = "get_buffers"
      /\ \A s \in Slabs : mdm.free_lists[tier][s] = 0
      /\ procs' = [procs EXCEPT ![p] =
                     [@ EXCEPT !.pc = IF procs[p].taken = <<>> THEN "returned"
                                      ELSE "give_back",
                               !.schema = <<>>, !.remaining = 0]]
      /\ UNCHANGED <<mdm, handles, mutex>>

\* LocalReleaseBuffer that leaves the in_use mark set.
LocalReleaseBuffer_StaysInUse(m, b) ==
  LET tier == m.headers[b].tier_id
      slab == SlabOfBuffer(b)
  IN  [m EXCEPT !.headers[b].used = 0,
                !.headers[b].next_free = m.free_lists[tier][slab],
                !.free_lists[tier][slab] = b]

\* The buffer goes to the head of the free list of its slab.
LocalReleaseBuffer(m, b) ==
  LET tier == m.headers[b].tier_id
      slab == SlabOfBuffer(b)
  IN  [m EXCEPT !.headers[b].used = 0,
                !.headers[b].next_free = m.free_lists[tier][slab],
                !.headers[b].in_use = FALSE,
                !.free_lists[tier][slab] = b]

Without(list, i) == SubSeq(list, 1, i - 1) \o SubSeq(list, i + 1, Len(list))

\* One of the buffers still to give back or to release goes back, in any
\* order.  After the last one a GetBuffers returns the empty list and a
\* ReleaseBuffers is over.
ReleaseOneBuffer(p, i) ==
  /\ procs[p].pc \in {"give_back", "release_buffers"}
  /\ i \in 1..Len(procs[p].taken)
  /\ mdm' = LocalReleaseBuffer(mdm, procs[p].taken[i])
  /\ procs' = [procs EXCEPT ![p] =
                 [@ EXCEPT !.taken = Without(procs[p].taken, i),
                           !.pc = IF Len(procs[p].taken) > 1 THEN procs[p].pc
                                  ELSE IF procs[p].pc = "give_back" THEN "returned"
                                  ELSE "idle"]]
  /\ UNCHANGED <<handles, mutex>>

\* The caller has the answer of GetBuffers: the buffers are its own now.
GetBuffersReturns(p) ==
  /\ procs[p].pc = "returned"
  /\ procs' = [procs EXCEPT ![p] =
                 [IdlePoolClient EXCEPT !.held = procs[p].held \cup
                                                   {procs[p].result[i] : i \in 1..Len(procs[p].result)}]]
  /\ UNCHANGED <<mdm, handles, mutex>>

RECURSIVE SetToSeq(_)
SetToSeq(S) ==
  IF S = {} THEN <<>> ELSE LET x == CHOOSE y \in S : \A z \in S : y <= z
                           IN  <<x>> \o SetToSeq(S \ {x})

\* ReleaseBuffers of the buffers of one tier that the caller holds.
ReleaseBuffersCall(p, tier) ==
  LET buffer_ids == {b \in procs[p].held : TierOfBuffer(b) = tier}
  IN  /\ procs[p].pc = "idle"
      /\ buffer_ids # {}
      /\ procs' = [procs EXCEPT ![p] =
                     [@ EXCEPT !.pc = "release_buffers", !.taken = SetToSeq(buffer_ids),
                               !.held = @ \ buffer_ids]]
      /\ UNCHANGED <<mdm, handles, mutex>>

ReleaseBuffersCallAlone(p, tier) == PoolQuiescent /\ ReleaseBuffersCall(p, tier)

NextPool ==
  \/ \E p \in Clients, schema \in Schemas : GetBuffersCall(p, schema)
  \/ \E p \in Clients, s \in Slabs : GetFreeBuffer(p, s)
  \/ \E p \in Clients : GetBuffersFails(p)
  \/ \E p \in Clients, i \in 1..NumBuffers : ReleaseOneBuffer(p, i)
  \/ \E p \in Clients : GetBuffersReturns(p)
  \/ \E p \in Clients, t \in Tiers : ReleaseBuffersCall(p, t)

SpecPool == InitPool /\ [][NextPool]_vars

NextPoolAlone ==
  \/ \E p \in Clients, schema \in Schemas : GetBuffersCallAlone(p, schema)
  \/ \E p \in Clients, s \in Slabs : GetFreeBuffer(p, s)
  \/ \E p \in Clients : GetBuffersFails(p)
  \/ \E p \in Clients, i \in 1..NumBuffers : ReleaseOneBuffer(p, i)
  \/ \E p \in Clients : GetBuffersReturns(p)
  \/ \E p \in Clients, t \in Tiers : ReleaseBuffersCallAlone(p, t)

SpecPoolAlone == InitPool /\ [][NextPoolAlone]_vars


(***************************************************************************)
(* Concurrent GetOrCreateBucketId / GetOrCreateVBucketId.  Every client    *)
(* makes one call; the call is forwarded to the node that owns the name,   *)
(* which runs LocalGetOrCreateBucketId (LocalGetOrCreateVBucketId) one     *)
(* statement at a time under that node's bucket_mutex (vbucket_mutex).     *)
(***************************************************************************)
MutexOf(kind) == IF kind = kMapType_Bucket THEN "bucket_mutex" ELSE "vbucket_mutex"

\* Fetch-and-increment of the ticket counter.
TakeTicket(mtx) == [mutex |-> [mtx EXCEPT !.ticket = @ + 1], my_ticket |-> mtx.ticket]

\* A spin loop that ends as soon as the ticket is no longer ahead of the one
\* being served.
IsServing_NotAhead(mtx, my_ticket) == mtx.serving <= my_ticket

\* The spin loop ends when the ticket is being served.
IsServing(mtx, my_ticket) == mtx.serving = my_ticket

\* EndTicketMutex that leaves serving as it is.
EndTicketMutex_KeepsServing(mtx) == mtx

EndTicketMutex(mtx) == [mtx EXCEPT !.serving = @ + 1]

Call(p, kind, name) ==
  /\ procs[p].pc = "idle"
  /\ procs' = [procs EXCEPT ![p] = [@ EXCEPT !.pc = "begin", !.kind = kind, !.name = name]]
  /\ UNCHANGED <<mdm, mutex, handles>>

BeginTicketMutex(p) ==
  /\ procs[p].pc = "begin"
  /\ LET node == HashString(procs[p].name)
         which == MutexOf(procs[p].kind)
         t == TakeTicket(mutex[node][which])
     IN  /\ mutex' = [mutex EXCEPT ![node][which] = t.mutex]
         /\ procs' = [procs EXCEPT ![p] = [@ EXCEPT !.pc = "spin", !.my_ticket = t.my_ticket]]
  /\ UNCHANGED <<mdm, handles>>

Enter(p) ==
  /\ procs[p].pc = "spin"
  /\ IsServing(mutex[HashString(procs[p].name)][MutexOf(procs[p].kind)], procs[p].my_ticket)
  /\ procs' = [procs EXCEPT ![p] = [@ EXCEPT !.pc = "get"]]
  /\ UNCHANGED <<mdm, mutex, handles>>

Lookup(p) ==
  /\ procs[p].pc = "get"
  /\ LET node == HashString(procs[p].name)
         result == IF procs[p].kind = kMapType_Bucket
                   THEN LocalGetBucketId(mdm, node, procs[p].name)
                   ELSE LocalGetVBucketId(mdm, node, procs[p].name)
     IN  procs' = [procs EXCEPT ![p] = [@ EXCEPT !.pc = "update", !.result = result]]
  /\ UNCHANGED <<mdm, mutex, handles>>

Update(p) ==
  /\ procs[p].pc = "update"
  /\ LET node == HashString(procs[p].name)
         r == IF procs[p].kind = kMapType_Bucket
              THEN OpenOrCreateBucket(mdm, node, procs[p].name, procs[p].result)
              ELSE OpenOrCreateVBucket(mdm, node, procs[p].name, procs[p].result)
     IN  /\ mdm' = r.mdm
         /\ procs' = [procs EXCEPT ![p] = [@ EXCEPT !.pc = "end", !.result = r.result]]
  /\ UNCHANGED <<mutex, handles>>

Return(p) ==
  /\ procs[p].pc = "end"
  /\ LET node == HashString(procs[p].name)
         which == MutexOf(procs[p].kind)
     IN  mutex' = [mutex EXCEPT ![node][which] = EndTicketMutex(@)]
  /\ procs' = [procs EXCEPT ![p] = [@ EXCEPT !.pc = "done"]]
  /\ UNCHANGED <<mdm, handles>>

NextConc ==
  \/ \E p \in Procs, kind \in {kMapType_Bucket, kMapType_VBucket}, n \in ShortNames :
       Call(p, kind, n)
  \/ \E p \in Procs : BeginTicketMutex(p)
  \/ \E p \in Procs : Enter(p)
  \/ \E p \in Procs : Lookup(p)
  \/ \E p \in Procs : Update(p)
  \/ \E p \in Procs : Return(p)

SpecConc == Init /\ [][NextConc]_vars

\* Calls on two names, so that the processes meet on few mutexes, under fair
\* scheduling: a process that can take its next step takes it at last (a
\* spinning process goes on reading serving, the holder of the mutex goes on
\* to EndTicketMutex).
NextConcFair ==
  \/ \E p \in Procs, kind \in {kMapType_Bucket, kMapType_VBucket}, n \in {<<97>>, <<98>>} :
       Call(p, kind, n)
  \/ \E p \in Procs : BeginTicketMutex(p)
  \/ \E p \in Procs : Enter(p)
  \/ \E p \in Procs : Lookup(p)
  \/ \E p \in Procs : Update(p)
  \/ \E p \in Procs : Return(p)

SpecConcFair ==
  /\ Init
  /\ [][NextConcFair]_vars
  /\ \A p \in Procs :
       /\ WF_vars(BeginTicketMutex(p))
       /\ WF_vars(Enter(p))
       /\ WF_vars(Lookup(p))
       /\ WF_vars(Update(p))
       /\ WF_vars(Return(p))

(***************************************************************************)
(* GetOrCreateBucketId / GetOrCreateVBucketId called one after another:    *)
(* every client makes one call, through its own node, and the call runs    *)
(* to completion.                                                          *)
(***************************************************************************)
GetOrCreate(p, kind, name) ==
  /\ procs[p].pc = "idle"
  /\ LET r == IF kind = kMapType_Bucket
              THEN GetOrCreateBucketId(mdm, ProcNode(p), name)
              ELSE GetOrCreateVBucketId(mdm, ProcNode(p), name)
     IN  /\ mdm' = r.mdm
         /\ procs' = [procs EXCEPT ![p] = [@ EXCEPT !.pc = "done", !.kind = kind,
                                                    !.name = name, !.result = r.result]]
  /\ UNCHANGED <<mutex, handles>>

NextSeq ==
  \E p \in Procs, kind \in {kMapType_Bucket, kMapType_VBucket}, n \in ShortNames :
    GetOrCreate(p, kind, n)

SpecSeq == Init /\ [][NextSeq]_vars

(***************************************************************************)
(* BalancedMapper::map, one turn of its loop at a time.  A request is the  *)
(* offset and the size of a file operation; the answer is the list of      *)
(* pieces, each a part of the file with the blob, named by the page index, *)
(* that holds it.  size_t is a word of SizeBits bits.                      *)
(***************************************************************************)
PAGE_SIZE == 4

SizeBits == 5

MaxPieces == 4

SizeT == 2 ^ SizeBits

\* std::hash of the id of the one file the requests are about.
file_hash == 7

MapperCallers == {1}

IdleMapper == [pc |-> "idle", file_op |-> [offset_ |-> 0, size_ |-> 0], size_mapped |-> 0,
               mapper_return |-> <<>>]

InitMapper ==
  /\ mdm = [n \in Nodes |-> InitMetadataManager(n)]
  /\ handles = [h \in Handles |-> NoHandle]
  /\ mutex = [n \in Nodes |-> [bucket_mutex |-> InitTicketMutex,
                               vbucket_mutex |-> InitTicketMutex]]
  /\ procs = [p \in Procs |-> IdleMapper]

MapCall(p, offset, size) ==
  /\ procs[p].pc = "idle"
  /\ procs' = [procs EXCEPT ![p] =
                 [pc |-> "loop", file_op |-> [offset_ |-> offset, size_ |-> size],
                  size_mapped |-> 0, mapper_return |-> <<>>]]
  /\ UNCHANGED <<mdm, handles, mutex>>

\* The piece one turn of the loop makes.
MapPiece(offset, size_mapped) ==
  LET file_offset == (offset + size_mapped) % SizeT
      page_index == file_offset \div PAGE_SIZE
      hermes_offset == file_offset % PAGE_SIZE
      hermes_size == ((page_index + 1) * PAGE_SIZE - hermes_offset) % SizeT
  IN  [file |-> [offset_ |-> file_offset, size_ |-> hermes_size],
       hermes |-> [offset_ |-> hermes_offset, size_ |-> hermes_size,
                   blob_name_ |-> <<file_hash, page_index>>]]

\* One turn of the loop; a list of MaxPieces pieces gets no more.
MapTurn(p) ==
  LET piece == MapPiece(procs[p].file_op.offset_, procs[p].size_mapped)
  IN  /\ procs[p].pc = "loop"
      /\ procs[p].file_op.size_ > procs[p].size_mapped
      /\ Len(procs[p].mapper_return) < MaxPieces
      /\ procs' = [procs EXCEPT ![p] =
                     [@ EXCEPT !.mapper_return = Append(@, piece),
                               !.size_mapped = (@ + piece.hermes.size_) % SizeT]]
      /\ UNCHANGED <<mdm, handles, mutex>>

MapReturn(p) ==
  /\ procs[p].pc = "loop"
  /\ ~(procs[p].file_op.size_ > procs[p].size_mapped)
  /\ procs' = [procs EXCEPT ![p].pc = "returned"]
  /\ UNCHANGED <<mdm, handles, mutex>>

MapForget(p) ==
  /\ procs[p].pc = "returned"
  /\ procs' = [procs EXCEPT ![p] = IdleMapper]
  /\ UNCHANGED <<mdm, handles, mutex>>

NextMapper ==
  \/ \E p \in MapperCallers, offset \in 0..(SizeT - 1), size \in 0..(SizeT - 1) :
       MapCall(p, offset, size)
  \/ \E p \in MapperCallers : MapTurn(p)
  \/ \E p \in MapperCallers : MapReturn(p)
  \/ \E p \in MapperCallers : MapForget(p)

SpecMapper == InitMapper /\ [][NextMapper]_vars

(***************************************************************************)
(* Properties of GetOrCreate calls (SpecConc, SpecSeq).                    *)
(***************************************************************************)
Kinds == {kMapType_Bucket, kMapType_VBucket}

\* The client's call has run its open-or-create statement.
Past(p) == procs[p].pc \in {"end", "done"}

Returned(p) == procs[p].pc = "done"

Asked(p, kind, name) == procs[p].kind = kind /\ procs[p].name = name

InfoOf(kind, node) ==
  IF kind = kMapType_Bucket THEN mdm[node].bucket_info ELSE mdm[node].vbucket_info

CountOf(kind, node) ==
  IF kind = kMapType_Bucket THEN mdm[node].num_buckets ELSE mdm[node].num_vbuckets

MaxOf(kind, node) ==
  IF kind = kMapType_Bucket THEN mdm[node].max_buckets ELSE mdm[node].max_vbuckets

ActiveSlots(kind, node) == {i \in DOMAIN InfoOf(kind, node) : InfoOf(kind, node)[i].active}

\* The names of a kind, owned by the node, that some call has opened or created.
NamesPast(kind, node) ==
  {name \in ShortNames :
     HashString(name) = node /\ \E p \in Procs : Past(p) /\ Asked(p, kind, name)}

\* C1: concurrent GetOrCreateBucketId (GetOrCreateVBucketId) calls for one
\* name all return the same non-null id, and one slot is taken for the name:
\* the owner node has as many active slots as names were asked of it.
C1_SameIdOneSlot ==
  \A p \in Procs, q \in Procs :
    (p # q /\ Past(p) /\ Past(q) /\ Asked(q, procs[p].kind, procs[p].name))
      => LET kind == procs[p].kind
             node == HashString(procs[p].name)
         IN  /\ procs[p].result = procs[q].result
             /\ ~IsNullId(procs[p].result)
             /\ procs[p].result.node_id = node
             /\ InfoOf(kind, node)[procs[p].result.index].active
             /\ Cardinality(ActiveSlots(kind, node)) = Cardinality(NamesPast(kind, node))
             /\ CountOf(kind, node) = Cardinality(NamesPast(kind, node))

\* Three calls for one bucket name overlap: one has returned, one is in the
\* critical section and has opened the bucket, one waits for its ticket.
C1_Witness ==
  \E p \in Procs, q \in Procs, r \in Procs :
    /\ procs[p].pc = "done" /\ procs[q].pc = "end" /\ procs[r].pc = "spin"
    /\ procs[p].kind = kMapType_Bucket
    /\ Asked(q, procs[p].kind, procs[p].name)
    /\ Asked(r, procs[p].kind, procs[p].name)

\* C2: the calls for one name all yield one id; the first creates the bucket
\* with ref_count 1 and every later one adds 1, so after k calls ref_count is
\* k; the name took one slot (num_buckets counts the names).
C2_RefCountIsCalls ==
  \A kind \in Kinds, name \in ShortNames :
    LET node == HashString(name)
        callers == {p \in Procs : Past(p) /\ Asked(p, kind, name)}
        id == LocalGet(mdm, node, name, kind)
    IN  (callers # {} /\ ~IsNullId(procs[CHOOSE p \in callers : TRUE].result))
          => /\ \A p \in callers : procs[p].result = id
             /\ InfoOf(kind, node)[id.index].ref_count = Cardinality(callers)
             /\ CountOf(kind, node) =
                  Cardinality({n \in ShortNames : HashString(n) = node
                                 /\ ~IsNullId(LocalGet(mdm, node, n, kind))})

\* Every client has opened the same bucket and returned.
C2_Witness ==
  \E name \in ShortNames :
    /\ \A p \in Procs : Returned(p) /\ Asked(p, kMapType_Bucket, name)
    /\ mdm[HashString(name)].bucket_info[procs[1].result.index].ref_count = NumProcs

\* The calls of a kind that the node has served.
CallsPast(kind, node) ==
  {p \in Procs : Past(p) /\ procs[p].kind = kind /\ HashString(procs[p].name) = node}

\* C9: on a node with room for K buckets (vbuckets), calls for up to K names
\* the node owns return distinct non-null ids; a call returns null only for a
\* name that is not mapped on a full node.
C9_DistinctUntilFull ==
  \A kind \in Kinds, node \in Nodes :
    LET calls == CallsPast(kind, node)
    IN  /\ \A p \in calls, q \in calls :
             (procs[p].name # procs[q].name /\ ~IsNullId(procs[p].result))
               => procs[p].result # procs[q].result
        /\ Cardinality({procs[p].name : p \in calls}) <= MaxOf(kind, node)
             => \A p \in calls : ~IsNullId(procs[p].result)
        /\ \A p \in calls :
             IsNullId(procs[p].result)
               => /\ IsNullId(LocalGet(mdm, node, procs[p].name, kind))
                  /\ CountOf(kind, node) = MaxOf(kind, node)

\* C9: the call for a new name on a full node returns the null id and adds
\* no mapping and changes no slot, ref_count or counter.
C9_FullPoolRefuses ==
  \A p \in Procs, kind \in Kinds, name \in ShortNames :
    (/\ GetOrCreate(p, kind, name)
     /\ CountOf(kind, HashString(name)) = MaxOf(kind, HashString(name))
     /\ IsNullId(LocalGet(mdm, HashString(name), name, kind)))
      => (IsNullId(procs'[p].result) /\ mdm' = mdm)

\* C9: K names give K distinct non-null ids, and the next name is refused
\* without any change of the directory.
C9_PoolExhaustion == []C9_DistinctUntilFull /\ [][C9_FullPoolRefuses]_vars

\* A call was refused on a node whose K buckets were created by K other calls.
C9_Witness ==
  \E p \in Procs :
    LET node == HashString(procs[p].name)
        others == CallsPast(kMapType_Bucket, node) \ {p}
    IN  /\ Returned(p) /\ procs[p].kind = kMapType_Bucket
        /\ IsNullId(procs[p].result)
        /\ Cardinality({procs[q].result : q \in others}) = MaxBuckets
        /\ \A q \in others : ~IsNullId(procs[q].result)
        /\ mdm[node].num_buckets = MaxBuckets

(***************************************************************************)
(* Properties of the bucket life cycle (Spec, SpecBlob).                   *)
(***************************************************************************)
SlotOf(m, id) == m[id.node_id].bucket_info[id.index]

\* The handles that opened the bucket and have not closed it.
OpenHandles(id) == {h \in Handles : handles[h].exists /\ handles[h].id_ = id}

\* C3: for every active bucket, ref_count is the number of handles that
\* opened it and have not called Close.
C3_RefCountIsOpenHandles ==
  \A node \in Nodes :
    \A i \in DOMAIN mdm[node].bucket_info :
      mdm[node].bucket_info[i].active
        => mdm[node].bucket_info[i].ref_count = Cardinality(OpenHandles(MakeId(node, i)))

\* C4: Bucket::Destroy through a handle whose bucket has ref_count > 0 returns
\* BUCKET_IN_USE and changes neither the directory (slot, name mapping, blob
\* list) nor the handle, which keeps its id.
C4_DestroyInUse ==
  \A h \in Handles :
    (handles[h].exists /\ IsValid(handles[h]) /\ SlotOf(mdm, handles[h].id_).ref_count > 0)
      => Bucket_Destroy(mdm, HandleNode(h), handles[h])
           = Outcome(mdm, handles[h], "BUCKET_IN_USE")

\* A handle on an active, referenced bucket that holds a blob; Destroy through
\* it is refused and the state stays as it is.
C4_Witness ==
  \E h \in Handles :
    /\ handles[h].exists /\ IsValid(handles[h])
    /\ SlotOf(mdm, handles[h].id_).ref_count > 0
    /\ SlotOf(mdm, handles[h].id_).active
    /\ SlotOf(mdm, handles[h].id_).blobs # <<>>
    /\ GetBucketId(mdm, HandleNode(h), handles[h].name_) = handles[h].id_
    /\ Bucket_Destroy(mdm, HandleNode(h), handles[h]).status = "BUCKET_IN_USE"

\* C5: once every handle on a bucket is closed and its ref_count is 0, Destroy
\* (through a handle that opened it) succeeds: the slot is inactive and heads
\* the free slot list, num_buckets is one less and the name is unmapped.
C5_DestroyAfterClose ==
  \A h \in Handles :
    LET node == HandleNode(h)
        id == GetBucketId(mdm, node, handles[h].name_)
        r == Bucket_Destroy(mdm, node, handles[h])
    IN  (/\ handles[h].exists
         /\ ~IsNullBucketId(id)
         /\ SlotOf(mdm, id).active
         /\ SlotOf(mdm, id).ref_count = 0
         /\ OpenHandles(id) = {})
          => /\ r.status = "OK"
             /\ ~SlotOf(r.mdm, id).active
             /\ r.mdm[id.node_id].first_free_bucket = id
             /\ r.mdm[id.node_id].num_buckets = mdm[id.node_id].num_buckets - 1
             /\ IsNullBucketId(GetBucketId(r.mdm, node, handles[h].name_))

\* The bucket the handle opened has been renamed: the handle's name_ does not
\* map to its id, another name does.
Renamed(h) ==
  /\ GetBucketId(mdm, HandleNode(h), handles[h].name_) # handles[h].id_
  /\ \E n \in BucketNames : GetBucketId(mdm, HandleNode(h), n) = handles[h].id_

\* C6: when Destroy succeeds through a handle whose bucket was renamed, no
\* name, old or new, resolves through GetBucketId to the destroyed id.
C6_DestroyStep ==
  \A h \in Handles :
    (/\ handles[h].exists /\ IsValid(handles[h]) /\ Renamed(h)
     /\ DestroyBucketCall(h)
     /\ ~IsValid(handles'[h]))
      => \A n \in BucketNames : GetBucketId(mdm', HandleNode(h), n) # handles[h].id_

C6_DestroyUnmapsRenamed == [][C6_DestroyStep]_vars

\* C7: a bucket name of kMaxBucketNameSize - 1 bytes is not too long, and a
\* Bucket is constructed under it whenever the owner node has a free slot.
C7_BoundaryNameAccepted ==
  \A n \in BucketNames :
    Len(n) = kMaxBucketNameSize - 1
      => /\ ~IsBucketNameTooLong(n)
         /\ \A h \in Handles :
              (~handles[h].exists
               /\ mdm[HashString(n)].num_buckets < mdm[HashString(n)].max_buckets)
                => Bucket_Bucket(mdm, HandleNode(h), n).status = "OK"

\* C8: with a name that is too long, Bucket and VBucket construction throw
\* and leave no valid handle, Bucket::Rename returns BUCKET_NAME_TOO_LONG and
\* Bucket::RenameBlob returns BLOB_NAME_TOO_LONG; the directory of every node
\* and the handle stay as they are.
C8_TooLongNoChange ==
  /\ \A node \in Nodes, n \in BucketNames :
       IsBucketNameTooLong(n)
         => Bucket_Bucket(mdm, node, n) = Outcome(mdm, NoHandle, "length_error")
  /\ \A node \in Nodes, n \in VBucketNames :
       IsVBucketNameTooLong(n)
         => VBucket_VBucket(mdm, node, n) = Outcome(mdm, NoHandle, "length_error")
  /\ \A h \in Handles, n \in BucketNames :
       (handles[h].exists /\ IsValid(handles[h]) /\ IsBucketNameTooLong(n))
         => Bucket_Rename(mdm, HandleNode(h), handles[h], n)
              = Outcome(mdm, handles[h], "BUCKET_NAME_TOO_LONG")
  /\ \A h \in Handles, o \in BlobNames, n \in BlobNames :
       (handles[h].exists /\ IsBlobNameTooLong(n))
         => Bucket_RenameBlob(mdm, HandleNode(h), handles[h], o, n)
              = Outcome(mdm, handles[h], "BLOB_NAME_TOO_LONG")

\* A valid handle on a bucket that holds a blob (a rename of the bucket or of
\* the blob would change the directory), where the calls with too long names
\* report their errors.
C8_Witness ==
  \E h \in Handles, o \in StoredBlobNames, n \in BlobNames, b \in BucketNames :
    /\ handles[h].exists /\ IsValid(handles[h])
    /\ ~IsNullBlobId(GetBlobId(mdm, HandleNode(h), o, handles[h].id_))
    /\ Bucket_RenameBlob(mdm, HandleNode(h), handles[h], o, n).status = "BLOB_NAME_TOO_LONG"
    /\ Bucket_Rename(mdm, HandleNode(h), handles[h], b).status = "BUCKET_NAME_TOO_LONG"
    /\ Bucket_Bucket(mdm, HandleNode(h), b).status = "length_error"

\* C10: every key of the Bucket, VBucket and Blob map of a node hashes to
\* that node.
C10_KeysOnOwner ==
  \A node \in Nodes, map_type \in MapTypes :
    \A key \in DOMAIN mdm[node].maps[map_type] : HashString(key) = node

\* All three maps hold entries, among them a bucket renamed to a name owned by
\* another node than the one its id names.
C10_Witness ==
  /\ \E node \in Nodes, key \in BucketNames :
       /\ key \in DOMAIN mdm[node].maps[kMapType_Bucket]
       /\ mdm[node].maps[kMapType_Bucket][key].node_id # node
  /\ \E node \in Nodes : DOMAIN mdm[node].maps[kMapType_VBucket] # {}
  /\ \E node \in Nodes : DOMAIN mdm[node].maps[kMapType_Blob] # {}

(***************************************************************************)
(* Blob operations of two open buckets (SpecBlobOps, SpecBlobById).        *)
(***************************************************************************)
\* The ids of the buckets that have an open handle.
OpenBucketIds == {handles[h].id_ : h \in {g \in Handles : handles[g].exists /\ IsValid(handles[g])}}

\* The blob ids some Blob map holds.
MappedBlobIds ==
  UNION {{mdm[n].maps[kMapType_Blob][k] : k \in DOMAIN mdm[n].maps[kMapType_Blob]} : n \in Nodes}

\* Whether the name's owner node has a buffer-id list to give.
CanAttach(blob_name) == FreeIdListOffsets(mdm, HashString(blob_name)) # {}

ValidHandles == {h \in Handles : handles[h].exists /\ IsValid(handles[h])}

\* The buffer-id list pools and the bucket slots of all nodes.
IdListsOf(m) == [n \in Nodes |-> m[n].id_lists]

BucketInfoOf(m) == [n \in Nodes |-> m[n].bucket_info]

\* old_name is a blob of the handle's bucket and new_name is a valid name the
\* bucket does not use.
CanRenameBlob(h, old_name, new_name) ==
  /\ Bucket_ContainsBlob(mdm, HandleNode(h), handles[h], old_name)
  /\ ~IsBlobNameTooLong(new_name)
  /\ new_name # old_name
  /\ IsNullBlobId(GetBlobId(mdm, HandleNode(h), new_name, handles[h].id_))

\* C12: after Bucket::RenameBlob(old, new) of an existing blob to a valid
\* name the bucket does not use, GetBlobId(new) is the BlobID old had,
\* ContainsBlob(new) is true, ContainsBlob(old) is false, and the buffer-id
\* lists and the bucket's blob list are unchanged.
C12_RenameBlobKeepsBinding ==
  \A h \in ValidHandles : \A old_name \in BlobNames : \A new_name \in BlobNames :
    CanRenameBlob(h, old_name, new_name) =>
      LET node == HandleNode(h)
          id == handles[h].id_
          r == Bucket_RenameBlob(mdm, node, handles[h], old_name, new_name)
      IN  /\ r.status = "OK"
          /\ r.handle = handles[h]
          /\ \A n \in Nodes :
               /\ GetBlobId(r.mdm, n, new_name, id) = GetBlobId(mdm, node, old_name, id)
               /\ ContainsBlob(r.mdm, n, id, new_name)
               /\ ~ContainsBlob(r.mdm, n, id, old_name)
               /\ IsNullBlobId(GetBlobId(r.mdm, n, old_name, id))
          /\ IdListsOf(r.mdm) = IdListsOf(mdm)
          /\ BucketInfoOf(r.mdm) = BucketInfoOf(mdm)

\* A blob was renamed to a name owned by another node than its first name:
\* the bucket knows it under a name that does not hash to the node of its
\* buffer-id list, and a further rename is possible.
C12_Witness ==
  \E h \in ValidHandles : \E old_name \in StoredBlobNames : \E new_name \in StoredBlobNames :
    /\ CanRenameBlob(h, old_name, new_name)
    /\ HashString(old_name) # GetBlobNodeId(GetBlobId(mdm, HandleNode(h), old_name, handles[h].id_))

\* C13: a RenameBlob(a, b) issued when a no longer exists in the bucket (b
\* does: the call repeats a rename already made) changes no state and
\* returns an indication that the key is missing, not the success status.
C13_RenameMissingReported ==
  \A h \in ValidHandles : \A a \in StoredBlobNames : \A b \in StoredBlobNames :
    (/\ IsNullBlobId(GetBlobId(mdm, HandleNode(h), a, handles[h].id_))
     /\ ~IsNullBlobId(GetBlobId(mdm, HandleNode(h), b, handles[h].id_)))
    => LET r == Bucket_RenameBlob(mdm, HandleNode(h), handles[h], a, b)
       IN  /\ r.mdm = mdm
           /\ r.handle = handles[h]
           /\ r.status # "OK"

(***************************************************************************)
(* Renames step by step (SpecRename).                                      *)
(***************************************************************************)
\* Client p is inside RenameBlob(old, new) with old # new, past its GetBlobId,
\* and no other client is inside a rename.
RenamingBlobAlone(p) ==
  /\ procs[p].pc \in {"delete_blob_id", "put_blob_id"}
  /\ procs[p].old_name # procs[p].new_name
  /\ \A q \in Clients \ {p} : procs[q].pc = "idle"

\* C14: while a RenameBlob(old, new) of an existing blob is in progress, a
\* GetBlobId issued by another client, from any node, finds the blob's id
\* under old or under new.
C14_RenameAtomic ==
  \A p \in Clients :
    RenamingBlobAlone(p) =>
      \A n \in Nodes :
        \/ GetBlobId(mdm, n, procs[p].old_name, procs[p].bucket_id) = procs[p].blob_id
        \/ GetBlobId(mdm, n, procs[p].new_name, procs[p].bucket_id) = procs[p].blob_id

(***************************************************************************)
(* Blob operations of two open buckets, continued.                         *)
(***************************************************************************)
\* Whether id is an element of the sequence ids.
InList(ids, id) == \E i \in DOMAIN ids : ids[i] = id

\* The list slot a BlobID decodes to, on node |node_id|.
ListOf(m, blob_id) == m[GetBlobNodeId(blob_id)].id_lists[blob_id.index]

\* Every element of the sequence occurs in it once.
NoRepeats(ids) == \A i \in DOMAIN ids : \A j \in DOMAIN ids : ids[i] = ids[j] => i = j

LiveBlob(h, name) ==
  /\ ContainsBlob(mdm, HandleNode(h), handles[h].id_, name)
  /\ ListOf(mdm, GetBlobId(mdm, HandleNode(h), name, handles[h].id_)).allocated

\* C16: after DestroyBlobById(id, bucket) of a live blob, issued from any
\* node, the blob's buffer-id list is released, the id is no longer in the
\* bucket's blob list and no key of any Blob map maps to the id.
C16_DestroyByIdRemoves ==
  \A h \in ValidHandles : \A name \in StoredBlobNames : \A node \in Nodes :
    LiveBlob(h, name) =>
      LET id == handles[h].id_
          blob_id == GetBlobId(mdm, node, name, id)
          after == DestroyBlobById(mdm, node, blob_id, id)
      IN  /\ ~ListOf(after, blob_id).allocated
          /\ ~InList(SlotOfBucket(after, id).blobs, blob_id)
          /\ \A n \in Nodes : \A k \in DOMAIN after[n].maps[kMapType_Blob] :
               after[n].maps[kMapType_Blob][k] # blob_id

(***************************************************************************)
(* Blob operations step by step (SpecBlobSteps).                           *)
(***************************************************************************)
\* The id the Blob map of the key's owner node holds under hex(bucket) || name.
StoredUnder(bucket_id, name) ==
  LET key == MakeInternalBlobName(name, bucket_id)
  IN  GetFromStorage(mdm[HashString(key)].maps[kMapType_Blob], key)

\* C17: ContainsBlob(bucket, name), from any node, is true exactly when the
\* Blob map holds a non-null id under the key hex(bucket) || name and that id
\* is in the blob list of the bucket on node bucket.node_id; the keys of one
\* external name in two buckets differ, so each bucket is answered for
\* itself.
C17_ContainsBlobExact ==
  \A id \in OpenBucketIds : \A name \in StoredBlobNames :
    /\ \A n \in Nodes :
         ContainsBlob(mdm, n, id, name)
           <=> /\ ~IsNullBlobId(StoredUnder(id, name))
               /\ InList(mdm[id.node_id].bucket_info[id.index].blobs, StoredUnder(id, name))
    /\ Len(MakeInternalBlobName(name, id)) = kBucketIdStringSize + Len(name)
    /\ \A other \in OpenBucketIds \ {id} :
         MakeInternalBlobName(name, id) # MakeInternalBlobName(name, other)

\* One external name is a blob of one bucket and not of the other, while an
\* attach has entered a name in the Blob map that is not yet in its bucket's
\* blob list.
C17_Witness ==
  /\ \E id \in OpenBucketIds : \E other \in OpenBucketIds : \E name \in StoredBlobNames :
       /\ ContainsBlob(mdm, id.node_id, id, name)
       /\ ~ContainsBlob(mdm, id.node_id, other, name)
  /\ \E id \in OpenBucketIds : \E name \in StoredBlobNames :
       /\ ~IsNullBlobId(StoredUnder(id, name))
       /\ ~ContainsBlob(mdm, id.node_id, id, name)

(***************************************************************************)
(* Blob operations of two open buckets, continued.                         *)
(***************************************************************************)
\* C18: the BlobID AttachBlobToBucket produces names, in |node_id|, the node
\* on which the call allocated the buffer-id list, and GetBufferIdList of
\* the id, from any node, returns the list passed to AttachBlobToBucket, in
\* the same order.
C18_ListOnBlobNode ==
  \A h \in ValidHandles : \A name \in StoredBlobNames :
    CanAttach(name) =>
      \A node \in Nodes : \A b \in PlacedBufferIds : \A s \in BOOLEAN :
        LET id == handles[h].id_
            after == AttachBlobToBucket(mdm, node, name, id, b, s)
            blob_id == GetBlobId(after, node, name, id)
        IN  /\ ~IsNullBlobId(blob_id)
            /\ \A n \in Nodes :
                 after[n].id_lists # mdm[n].id_lists <=> n = GetBlobNodeId(blob_id)
            /\ ~ListOf(mdm, blob_id).allocated
            /\ ListOf(after, blob_id) = [allocated |-> TRUE, ids |-> b]
            /\ \A n \in Nodes : GetBufferIdList(after, n, blob_id) = b

\* A blob attached through a handle of another node than the one its name
\* belongs to is in the directory with a list of two BufferIDs, and a
\* further attach is possible.
C18_Witness ==
  /\ \E h \in ValidHandles : \E name \in StoredBlobNames :
       LET blob_id == GetBlobId(mdm, HandleNode(h), name, handles[h].id_)
       IN  /\ ~IsNullBlobId(blob_id)
           /\ GetBlobNodeId(blob_id) # HandleNode(h)
           /\ GetBufferIdList(mdm, HandleNode(h), blob_id) \in PlacedBufferIds
           /\ Len(GetBufferIdList(mdm, HandleNode(h), blob_id)) = 2
  /\ \E name \in StoredBlobNames : CanAttach(name)

(***************************************************************************)
(* Blob operations step by step (SpecBlobSteps), continued.                *)
(***************************************************************************)
\* C19: in every state, also while an AttachBlobToBucket or a
\* DestroyBlobByName of the blob is in progress on another client, every
\* non-null BlobID with node_id > 0 that GetBlobId returns decodes on node
\* node_id to a non-empty buffer-id list that is allocated.
C19_MappedListAllocated ==
  \A id \in OpenBucketIds : \A name \in StoredBlobNames : \A n \in Nodes :
    LET blob_id == GetBlobId(mdm, n, name, id)
    IN  (~IsNullBlobId(blob_id) /\ blob_id.node_id > 0) =>
          /\ ListOf(mdm, blob_id).allocated
          /\ GetBufferIdList(mdm, n, blob_id) # <<>>

(***************************************************************************)
(* Blob operations of two open buckets, continued.                         *)
(***************************************************************************)
\* C20: a BlobID has node_id < 0 exactly when the blob was attached with
\* is_swap_blob = TRUE; Bucket::BlobIsInSwap is true for such a blob, false
\* for any other blob and for a name that does not exist; the operations on
\* a swap blob go to node |node_id|, the node a non-swap blob of the name
\* uses.
C20_SwapIsNegativeNode ==
  \A h \in ValidHandles : \A name \in StoredBlobNames : \A node \in Nodes :
    LET id == handles[h].id_
    IN  /\ IsNullBlobId(GetBlobId(mdm, node, name, id)) =>
             ~Bucket_BlobIsInSwap(mdm, node, handles[h], name)
        /\ CanAttach(name) =>
             \A b \in PlacedBufferIds : \A s \in BOOLEAN :
               LET after == AttachBlobToBucket(mdm, node, name, id, b, s)
                   blob_id == GetBlobId(after, node, name, id)
               IN  /\ blob_id.node_id < 0 <=> s
                   /\ Bucket_BlobIsInSwap(after, node, handles[h], name) <=> s
                   /\ GetBlobNodeId(blob_id) = HashString(name)
                   /\ GetBlobNodeId(blob_id) \in Nodes
                   /\ GetBlobNodeId(blob_id)
                        = GetBlobNodeId(GetBlobId(AttachBlobToBucket(mdm, node, name, id, b, ~s),
                                                  node, name, id))
                   /\ \A n \in Nodes :
                        GetBufferIdList(after, n, blob_id)
                          = LocalGetBufferIdList(after, HashString(name), blob_id)
                   /\ \A n \in Nodes :
                        LET gone == DestroyBlobByName(after, n, id, name)
                        IN  /\ ~gone[HashString(name)].id_lists[blob_id.index].allocated
                            /\ IsNullBlobId(GetBlobId(gone, n, name, id))

\* A bucket holds a swap blob and a non-swap blob, and another bucket lacks a
\* name.
C20_Witness ==
  /\ \E h \in ValidHandles : \E x \in StoredBlobNames : \E y \in StoredBlobNames :
       /\ Bucket_BlobIsInSwap(mdm, HandleNode(h), handles[h], x)
       /\ ~IsNullBlobId(GetBlobId(mdm, HandleNode(h), y, handles[h].id_))
       /\ ~Bucket_BlobIsInSwap(mdm, HandleNode(h), handles[h], y)
  /\ \E h \in ValidHandles : \E name \in StoredBlobNames :
       IsNullBlobId(GetBlobId(mdm, HandleNode(h), name, handles[h].id_))

(***************************************************************************)
(* Swap blobs (SpecSwap).                                                  *)
(***************************************************************************)
\* C21: for every SwapBlob s, SwapBlobToVec(s) has SwapBlobMembers_Count
\* elements and VecToSwapBlob gives s back field by field (also through
\* IdArrayToSwapBlob); and the buffer-id list of every BlobID with
\* node_id < 0 in the directory has SwapBlobMembers_Count elements (and is
\* the packing of the record it decodes to).
C21_SwapBlobRoundTrip ==
  /\ \A s \in SwapBlobs :
       /\ Len(SwapBlobToVec(s)) = SwapBlobMembers_Count
       /\ VecToSwapBlob(SwapBlobToVec(s)).node_id = s.node_id
       /\ VecToSwapBlob(SwapBlobToVec(s)).offset = s.offset
       /\ VecToSwapBlob(SwapBlobToVec(s)).size = s.size
       /\ VecToSwapBlob(SwapBlobToVec(s)).bucket_id = s.bucket_id
       /\ IdArrayToSwapBlob(SwapBlobToVec(s)) = s
  /\ \A blob_id \in MappedBlobIds :
       blob_id.node_id < 0 =>
         \A n \in Nodes :
           /\ Len(GetBufferIdList(mdm, n, blob_id)) = SwapBlobMembers_Count
           /\ VecToSwapBlob(GetBufferIdList(mdm, n, blob_id)) \in SwapBlobs
           /\ SwapBlobToVec(VecToSwapBlob(GetBufferIdList(mdm, n, blob_id)))
                = GetBufferIdList(mdm, n, blob_id)

\* The directory holds a swap blob whose record lies at the far end of the
\* swap file, beside a blob that is not in swap.
C21_Witness ==
  /\ \E blob_id \in MappedBlobIds :
       /\ blob_id.node_id < 0
       /\ VecToSwapBlob(GetBufferIdList(mdm, GetBlobNodeId(blob_id), blob_id)).offset = U64 - 1
       /\ VecToSwapBlob(GetBufferIdList(mdm, GetBlobNodeId(blob_id), blob_id)).size
            = MaxSwapBlobSize
  /\ \E blob_id \in MappedBlobIds : blob_id.node_id > 0

(***************************************************************************)
(* Internal blob names.                                                    *)
(***************************************************************************)
\* Bucket ids whose halves have leading zeros, letters among their digits
\* and the largest value a half can take here.
SampleBucketIds == {MakeId(n, i) : n \in {1, 2, 10, 180150009}, i \in {0, 1, 255, 2147483647}}

HexDigits == (48..57) \cup (97..102)

BlobMapKeys == UNION {DOMAIN mdm[n].maps[kMapType_Blob] : n \in Nodes}

\* C22: MakeInternalBlobName(n, b) is the 2 * sizeof(BucketID) hexadecimal
\* digits of b followed by n: HexStringToU64 of the key gives b back, the key
\* without its first kBucketIdStringSize characters is n, and two different
\* pairs (b, n) never give the same key.  Every key a Blob map holds is such
\* a name of an open bucket.
C22_InternalNameRoundTrip ==
  /\ \A b \in SampleBucketIds \cup OpenBucketIds, n \in BlobNames :
       LET key == MakeInternalBlobName(n, b)
       IN  /\ Len(key) = kBucketIdStringSize + Len(n)
           /\ \A i \in 1..kBucketIdStringSize : key[i] \in HexDigits
           /\ HexStringToU64(key) = b
           /\ SubSeq(key, kBucketIdStringSize + 1, Len(key)) = n
           /\ \A b2 \in SampleBucketIds \cup OpenBucketIds, n2 \in BlobNames :
                MakeInternalBlobName(n2, b2) = key => (b2 = b /\ n2 = n)
  /\ \A key \in BlobMapKeys :
       /\ Len(key) > kBucketIdStringSize
       /\ HexStringToU64(key) \in OpenBucketIds
       /\ SubSeq(key, kBucketIdStringSize + 1, Len(key)) \in StoredBlobNames
       /\ key = MakeInternalBlobName(SubSeq(key, kBucketIdStringSize + 1, Len(key)),
                                     HexStringToU64(key))

\* One external name is stored in both buckets, under two keys that decode
\* to the two bucket ids.
C22_Witness ==
  \E k1 \in BlobMapKeys, k2 \in BlobMapKeys :
     /\ k1 # k2
     /\ HexStringToU64(k1) # HexStringToU64(k2)
     /\ SubSeq(k1, kBucketIdStringSize + 1, Len(k1)) = SubSeq(k2, kBucketIdStringSize + 1, Len(k2))

(***************************************************************************)
(* Failing remote calls.                                                   *)
(***************************************************************************)
\* C23: when a remote call inside an operation has failed, the shared-memory
\* state of every node is the state the operation started from.
C23_RpcFailureLeavesStateUntouched ==
  \A p \in Clients : procs[p].pc = "rpc_failed" => mdm = procs[p].before

\* A failure of the first remote call of an operation, which the operation
\* has done nothing before.
C23_FirstCallFailureHarmless ==
  [][\A p \in Clients : (RpcAttachAllocateFails(p) \/ RpcDestroyLocalFails(p))
                           => mdm' = procs[p].before]_vars

(***************************************************************************)
(* System view state.                                                      *)
(***************************************************************************)
RECURSIVE SumOver(_, _)
SumOver(f, S) ==
  IF S = {} THEN 0 ELSE LET x == CHOOSE y \in S : TRUE IN f[x] + SumOver(f, S \ {x})

\* What an updater has taken out of capacity_adjustments[d] and not yet
\* added to the global view.
InFlight(p, d) ==
  IF \/ procs[p].pc = "exchange" /\ d < procs[p].i
     \/ procs[p].pc = "update" /\ d >= procs[p].i
  THEN procs[p].adjustments[d]
  ELSE 0

Pending(d) == SumOver([n \in Nodes |-> mdm[n].capacity_adjustments[d]], Nodes)

\* All adjustments ever recorded for the device: what the nodes' devices
\* have lost or gained since the start.
Recorded(d) == SumOver([n \in Nodes |-> mdm[n].remaining[d] - DeviceCapacity], Nodes)

GlobalBytesAvailable(d) == mdm[global_system_view_state_node_id].bytes_available[d]

\* C24: for every device, the global bytes_available plus the deltas in
\* flight plus the pending capacity_adjustments of all nodes equals the
\* initial global value plus all adjustments ever recorded, as 64-bit
\* values: no adjustment is lost or applied twice.
C24_AdjustmentsConserved ==
  \A d \in Devices :
     (GlobalBytesAvailable(d) + SumOver([p \in Procs |-> InFlight(p, d)], Procs) + Pending(d)) % U64
       = (CreateSystemViewState[d] + Recorded(d)) % U64

\* Two updaters of one node and one of another node hold deltas of the same
\* device at once while a further adjustment is pending.
C24_Witness ==
  \E d \in Devices :
     /\ \E p \in Procs, q \in Procs :
          /\ ProcNode(p) # ProcNode(q)
          /\ InFlight(p, d) # 0
          /\ InFlight(q, d) # 0
     /\ \E n \in Nodes : mdm[n].capacity_adjustments[d] # 0
     /\ GlobalBytesAvailable(d) # CreateSystemViewState[d]

\* GetGlobalDeviceCapacities, from every node, gives for every device the
\* initial value plus all adjustments made on all nodes.
GlobalViewConverged ==
  \A n \in Nodes, d \in Devices :
     GetGlobalDeviceCapacities(mdm, n)[d] = (CreateSystemViewState[d] + Recorded(d)) % U64

NoAdjustment == ~(\E n \in Nodes, d \in Devices, delta \in {0 - 1, 1} : AdjustCapacity(n, d, delta))

\* C25: if allocations and releases stop and the nodes go on with their
\* UpdateGlobalSystemViewState rounds, GetGlobalDeviceCapacities from any node
\* eventually returns the initial value plus the sum of all adjustments, for
\* every device, and stays there.
C25_GlobalViewConverges == <>[][NoAdjustment]_vars => <>[]GlobalViewConverged

\* The view has converged on adjustments made on both nodes, with no update
\* under way.
C25_Witness ==
  /\ GlobalViewConverged
  /\ \A p \in Procs : procs[p].pc = "idle"
  /\ \E d \in Devices : \A n \in Nodes : mdm[n].remaining[d] # DeviceCapacity

(***************************************************************************)
(* Neighborhood targets.                                                   *)
(***************************************************************************)
\* How often the target occurs in the list.
Occurrences(list, t) == Cardinality({i \in 1..Len(list) : list[i] = t})

RingPrevious(n, count) == IF n = 1 THEN count ELSE n - 1

RingNext(n, count) == IF n = count THEN 1 ELSE n + 1

\* The answer holds every target of the previous and of the next node once,
\* and no target of another node than the caller, the previous and the next.
NeighboursOnce(p) ==
  LET n == procs[p].node_id
      count == Len(mdm)
      near == {RingPrevious(n, count), RingNext(n, count)} \ {n}
  IN  /\ \A k \in near : \A i \in 1..Len(mdm[k].node_targets) :
           Occurrences(procs[p].result, mdm[k].node_targets[i]) = 1
      /\ \A i \in 1..Len(procs[p].result) : procs[p].result[i].node_id \in near \cup {n}

OwnTargetsOnce(p) ==
  \A i \in 1..Len(mdm[procs[p].node_id].node_targets) :
     Occurrences(procs[p].result, mdm[procs[p].node_id].node_targets[i]) = 1

\* C30: GetNeighborhoodTargets on node n of the ring 1..N returns the
\* caller's own targets and the targets of the previous and of the next
\* node, with wrap-around, each node's targets once.
C30_OwnAndNeighbourTargets ==
  \A p \in Clients : procs[p].pc = "done" => (OwnTargetsOnce(p) /\ NeighboursOnce(p))

\* The part of C30 about the neighbours alone.
C30_NeighbourTargets ==
  \A p \in Clients : procs[p].pc = "done" => NeighboursOnce(p)

(***************************************************************************)
(* Buffer pool.                                                            *)
(***************************************************************************)
\* The free list of a slab class of a tier, from its head along next_free
\* (at most one turn more than there are buffers).
RECURSIVE FreeListFrom(_, _, _)
FreeListFrom(m, b, turns) ==
  IF b = 0 \/ turns = 0 THEN <<>>
  ELSE <<b>> \o FreeListFrom(m, m.headers[b].next_free, turns - 1)

FreeList(m, t, s) == FreeListFrom(m, m.free_lists[t][s], NumBuffers + 1)

RECURSIVE FreeListsOfTier(_, _, _)
FreeListsOfTier(m, t, s) ==
  IF s = 0 THEN <<>> ELSE FreeListsOfTier(m, t, s - 1) \o FreeList(m, t, s)

RECURSIVE SumCapacity(_, _)
SumCapacity(m, list) ==
  IF list = <<>> THEN 0 ELSE m.headers[Head(list)].capacity + SumCapacity(m, Tail(list))

FreeCapacity(m, t) == SumCapacity(m, FreeListsOfTier(m, t, NumSlabs))

InUseBuffers(m, t) == {b \in Buffers : m.headers[b].tier_id = t /\ m.headers[b].in_use}

ConfiguredCapacity(t) ==
  SumCapacity(InitBufferPool, SetToSeq({b \in Buffers : TierOfBuffer(b) = t}))

\* What C26 compares: the members of every free list, the in_use flags and
\* the free capacity of every tier.
PoolView(m) ==
  [free |-> [t \in Tiers |-> [s \in Slabs |->
               {FreeList(m, t, s)[i] : i \in 1..Len(FreeList(m, t, s))}]],
   in_use |-> [b \in Buffers |-> m.headers[b].in_use],
   free_capacity |-> [t \in Tiers |-> FreeCapacity(m, t)]]

RECURSIVE BytesOfTier(_, _)
BytesOfTier(schema, t) ==
  IF schema = <<>> THEN 0
  ELSE (IF Head(schema).tier_id = t THEN Head(schema).bytes ELSE 0) + BytesOfTier(Tail(schema), t)

GetBuffersReturned(p) == procs[p].pc = "returned"

C27_CapacityConserved ==
  \A t \in Tiers :
     LET free == FreeListsOfTier(mdm, t, NumSlabs)
     IN  /\ FreeCapacity(mdm, t) + SumCapacity(mdm, SetToSeq(InUseBuffers(mdm, t)))
              = ConfiguredCapacity(t)
         /\ \A i \in 1..Len(free) : ~mdm.headers[free[i]].in_use
         /\ \A i \in 1..Len(free), j \in 1..Len(free) : free[i] = free[j] => i = j

\* A quiescent state after a failed and a successful GetBuffers and a
\* ReleaseBuffers by two clients: both hold buffers of one tier, of which a
\* released buffer is free again.
C27_Witness ==
  /\ PoolQuiescent
  /\ \A p \in Clients : procs[p].held # {}
  /\ \E t \in Tiers : FreeCapacity(mdm, t) > 0 /\ InUseBuffers(mdm, t) # {}

(***************************************************************************)
(* The ticket mutex.                                                       *)
(***************************************************************************)
HasTicket(p) == procs[p].pc \in {"spin", "get", "update", "end"}

InCriticalSection(p) == procs[p].pc \in {"get", "update", "end"}

SameMutex(p, q) ==
  /\ HashString(procs[p].name) = HashString(procs[q].name)
  /\ MutexOf(procs[p].kind) = MutexOf(procs[q].kind)

\* At most one process is between BeginTicketMutex and EndTicketMutex of a
\* mutex; the tickets in hand differ, and the process inside holds a smaller
\* ticket than every process that spins.
OneInsideLowestTicket ==
  \A p \in Procs, q \in Procs :
     (p # q /\ HasTicket(p) /\ HasTicket(q) /\ SameMutex(p, q)) =>
        /\ ~(InCriticalSection(p) /\ InCriticalSection(q))
        /\ procs[p].my_ticket # procs[q].my_ticket
        /\ (InCriticalSection(p) /\ procs[q].pc = "spin")
              => procs[p].my_ticket < procs[q].my_ticket

\* A process that takes a ticket gets a larger one than every process that
\* took its ticket of the same mutex before and still has it in hand.
TicketsInOrderOfTaking ==
  \A p \in Procs : BeginTicketMutex(p) =>
     \A q \in Procs : (q # p /\ HasTicket(q) /\ SameMutex(p, q))
                         => procs[q].my_ticket < procs'[p].my_ticket

\* A process enters only when no process with a smaller ticket of the same
\* mutex is waiting.
EntersInTicketOrder ==
  \A p \in Procs : Enter(p) =>
     \A q \in Procs : (q # p /\ procs[q].pc = "spin" /\ SameMutex(p, q))
                         => procs[p].my_ticket < procs[q].my_ticket

\* C28: the ticket mutex gives mutual exclusion in FIFO order: at most one
\* process is inside a mutex at any time, and processes enter in the order
\* in which they took their tickets.
C28_MutualExclusionFifo ==
  /\ []OneInsideLowestTicket
  /\ [][TicketsInOrderOfTaking /\ EntersInTicketOrder]_vars

\* Three processes took tickets of one mutex; the first is through, the
\* second is inside and the third spins.
C28_Witness ==
  \E p \in Procs, q \in Procs, r \in Procs :
     /\ SameMutex(p, q) /\ SameMutex(q, r)
     /\ procs[p].pc = "done" /\ procs[p].my_ticket = 0
     /\ InCriticalSection(q) /\ procs[q].my_ticket = 1
     /\ procs[r].pc = "spin" /\ procs[r].my_ticket = 2

\* C29: the ticket mutex is starvation-free under fair scheduling: every
\* process that has taken a ticket acquires the mutex at last, and every
\* GetOrCreateBucketId and GetOrCreateVBucketId call returns at last.
C29_StarvationFree ==
  \A p \in Procs :
     /\ (procs[p].pc = "spin") ~> InCriticalSection(p)
     /\ (procs[p].pc = "begin") ~> (procs[p].pc = "done")

\* All processes have called, all on one mutex, and have returned, the last
\* with the last ticket.
C29_Witness ==
  /\ \A p \in Procs : procs[p].pc = "done"
  /\ \A p \in Procs, q \in Procs : SameMutex(p, q)
  /\ \E p \in Procs : procs[p].my_ticket = NumProcs - 1

\* C31: a Put of a null data pointer with a size above zero returns
\* INVALID_BLOB and leaves the directory and the handle as they were; a Put
\* of size 0, null pointer or not, is not answered with INVALID_BLOB.
C31_NullDataRejected ==
  \A h \in Handles, n \in BlobNames, size \in 0..MaxPutSize :
     \A b \in PutPlacements(size) :
        handles[h].exists =>
          /\ size > 0 =>
               Bucket_Put(mdm, HandleNode(h), handles[h], n, nullptr, size, b)
                 = Outcome(mdm, handles[h], "INVALID_BLOB")
          /\ size = 0 =>
               \A d \in DataPointers :
                  Bucket_Put(mdm, HandleNode(h), handles[h], n, d, size, b).status
                    # "INVALID_BLOB"

\* A blob is stored on one node, and a bucket could take a blob of another
\* name: the Put of that name with bytes, and the Put of an empty blob with a
\* null pointer, would change the directory, the Put of a null pointer with a
\* size is turned away.
C31_Witness ==
  \E h \in Handles, n \in StoredBlobNames, node \in Nodes, b \in PlacedBufferIds :
     /\ handles[h].exists
     /\ mdm[node].id_lists[1].allocated
     /\ Bucket_Put(mdm, HandleNode(h), handles[h], n, "data", MaxPutSize, b).mdm # mdm
     /\ Bucket_Put(mdm, HandleNode(h), handles[h], n, nullptr, 0, <<>>).status = "OK"
     /\ Bucket_Put(mdm, HandleNode(h), handles[h], n, nullptr, 0, <<>>).mdm # mdm
     /\ Bucket_Put(mdm, HandleNode(h), handles[h], n, nullptr, MaxPutSize, b).mdm = mdm
     /\ Bucket_Put(mdm, HandleNode(h), handles[h], n, nullptr, MaxPutSize, b).status
          = "INVALID_BLOB"

\* C32: the ref_count of every bucket slot and of every vbucket slot of every
\* node is at least zero in every reachable state.
C32_RefCountNeverNegative ==
  \A node \in Nodes :
     /\ \A i \in DOMAIN mdm[node].bucket_info : mdm[node].bucket_info[i].ref_count >= 0
     /\ \A i \in DOMAIN mdm[node].vbucket_info : mdm[node].vbucket_info[i].ref_count >= 0

\* C33: for every blob that a bucket holds under a name, the name found from
\* the blob's id is that name and the bucket found from the blob's id is that
\* bucket, on whichever node the question is asked.
C33_ReverseLookup ==
  \A h \in Handles, n \in NamesOfBlobs, node \in Nodes :
     LET b == handles[h].id_
         id == GetBlobId(mdm, node, n, b)
     IN  (/\ handles[h].exists
          /\ IsValid(handles[h])
          /\ ~IsNullBlobId(id)
          /\ ContainsBlob(mdm, node, b, n))
           => /\ GetBlobNameFromId(mdm, node, id) = n
              /\ GetBucketIdFromBlobId(mdm, node, id) = b

\* The slots met when following next_free from id, at most fuel of them.
RECURSIVE FreeSlotsFrom(_, _, _)
FreeSlotsFrom(info, id, fuel) ==
  IF id = NullId \/ fuel = 0 \/ id.index \notin DOMAIN info
  THEN <<>>
  ELSE <<id.index>> \o FreeSlotsFrom(info, info[id.index].next_free, fuel - 1)

\* The free list ends within as many links as there are slots, meets no slot
\* twice and holds the inactive slots and no other.
FreeListIsInactiveSlots(info, first_free) ==
  LET slots == DOMAIN info
      list == FreeSlotsFrom(info, first_free, Cardinality(slots) + 1)
  IN  /\ Len(list) <= Cardinality(slots)
      /\ \A i, j \in 1..Len(list) : list[i] = list[j] => i = j
      /\ {list[i] : i \in 1..Len(list)} = {s \in slots : ~info[s].active}

OneSlotPerName(map_type) ==
  \A n1, n2 \in Nodes :
     \A k1 \in DOMAIN mdm[n1].maps[map_type], k2 \in DOMAIN mdm[n2].maps[map_type] :
        mdm[n1].maps[map_type][k1] = mdm[n2].maps[map_type][k2] => k1 = k2

\* C34: on every node the count of buckets is at most the maximum and equals
\* the number of active slots, the free list from first_free_bucket is acyclic
\* and holds exactly the inactive slots, and no two names of the Bucket map
\* share a slot; the same for vbuckets.
C34_SlotPoolIntegrity ==
  /\ \A node \in Nodes :
        /\ mdm[node].num_buckets <= mdm[node].max_buckets
        /\ mdm[node].num_buckets
             = Cardinality({s \in DOMAIN mdm[node].bucket_info :
                              mdm[node].bucket_info[s].active})
        /\ FreeListIsInactiveSlots(mdm[node].bucket_info, mdm[node].first_free_bucket)
        /\ mdm[node].num_vbuckets <= mdm[node].max_vbuckets
        /\ mdm[node].num_vbuckets
             = Cardinality({s \in DOMAIN mdm[node].vbucket_info :
                              mdm[node].vbucket_info[s].active})
        /\ FreeListIsInactiveSlots(mdm[node].vbucket_info, mdm[node].first_free_vbucket)
  /\ OneSlotPerName(kMapType_Bucket)
  /\ OneSlotPerName(kMapType_VBucket)

\* The keys of the Blob maps with their nodes.
BlobMapEntries == {e \in Nodes \X BlobMapKeys : e[2] \in DOMAIN mdm[e[1]].maps[kMapType_Blob]}

\* C35: every BlobID in the blob list of a bucket is the value of exactly one
\* Blob-map key whose prefix is the id of the bucket, and the id of every
\* Blob-map entry is in the blob list of the bucket that its prefix names.
C35_DirectoryMatchesLists ==
  /\ \A node \in Nodes :
        \A s \in DOMAIN mdm[node].bucket_info :
           LET info == mdm[node].bucket_info[s]
           IN  info.active =>
                 \A i \in 1..Len(info.blobs) :
                    Cardinality({e \in BlobMapEntries :
                                   /\ mdm[e[1]].maps[kMapType_Blob][e[2]] = info.blobs[i]
                                   /\ HexStringToU64(e[2]) = MakeId(node, s)}) = 1
  /\ \A e \in BlobMapEntries :
        LET b == HexStringToU64(e[2])
        IN  /\ b.node_id \in Nodes
            /\ b.index \in DOMAIN mdm[b.node_id].bucket_info
            /\ \E i \in 1..Len(mdm[b.node_id].bucket_info[b.index].blobs) :
                  mdm[b.node_id].bucket_info[b.index].blobs[i]
                    = mdm[e[1]].maps[kMapType_Blob][e[2]]

\* Two calls that destroy the same blob and have not both returned.
DestroyTogether(p, q) ==
  /\ p # q
  /\ procs[p].pc # "idle"
  /\ procs[q].pc # "idle"
  /\ procs[p].blob_id = procs[q].blob_id

\* C36: of two concurrent destroys of one blob, by name or by id, no BufferID
\* is handed to ReleaseBuffers by both and the buffer-id list is not freed by
\* both.
C36_ReleasedAtMostOnce ==
  \A p, q \in Clients :
     DestroyTogether(p, q) =>
       /\ \A i \in 1..Len(procs[p].released), j \in 1..Len(procs[q].released) :
             procs[p].released[i] # procs[q].released[j]
       /\ ~(procs[p].freed /\ procs[q].freed)

\* Every adjustment made so far has been taken to the global state: no node
\* has an adjustment waiting and no update is under way.
UpdateRoundsDone ==
  /\ \A node \in Nodes, d \in Devices : mdm[node].capacity_adjustments[d] = 0
  /\ \A p \in Procs : procs[p] = IdleUpdater

\* C37: after allocations and releases on any nodes followed by the update
\* rounds that take them to the global state, the global bytes_available of
\* every device is between 0 and the value it was created with, the capacity
\* of the device in one node's configuration.
C37_GlobalNeverWraps ==
  UpdateRoundsDone =>
    \A d \in Devices :
       /\ 0 <= GlobalBytesAvailable(d)
       /\ GlobalBytesAvailable(d) <= CreateSystemViewState[d]

RECURSIVE SumOfSizes(_)
SumOfSizes(pieces) ==
  IF pieces = <<>> THEN 0 ELSE Head(pieces).file.size_ + SumOfSizes(Tail(pieces))

\* C38: the pieces of a call that has returned tile its request: the first
\* starts at the offset of the request, each starts where the one before it
\* ends, and their sizes add up to the size of the request (none for size 0).
C38_PiecesTileRequest ==
  \A p \in MapperCallers :
     procs[p].pc = "returned" =>
       LET pieces == procs[p].mapper_return
       IN  /\ procs[p].file_op.size_ = 0 => pieces = <<>>
           /\ pieces # <<>> => pieces[1].file.offset_ = procs[p].file_op.offset_
           /\ \A i \in 1..(Len(pieces) - 1) :
                 pieces[i + 1].file.offset_ = pieces[i].file.offset_ + pieces[i].file.size_
           /\ SumOfSizes(pieces) = procs[p].file_op.size_

\* C39: every piece lies inside one page-sized blob: the name carries the
\* page index of the piece's file offset, the blob offset is the file offset
\* within the page, and the piece ends at or before the end of the page.
C39_PieceInsidePage ==
  \A p \in MapperCallers :
     \A i \in 1..Len(procs[p].mapper_return) :
        LET piece == procs[p].mapper_return[i]
        IN  /\ piece.hermes.blob_name_ = <<file_hash, piece.file.offset_ \div PAGE_SIZE>>
            /\ piece.hermes.offset_ = piece.file.offset_ % PAGE_SIZE
            /\ piece.hermes.offset_ + piece.hermes.size_ <= PAGE_SIZE

====
